---- MODULE Spec2Model ----
(***************************************************************************)
(* T2BayesianBlocks.process (ampel/contrib/hu/t2/T2BayesianBlocks.py) as a *)
(* state machine: the loop over the passbands of self.filter, and for each *)
(* band the photometry fetch, the call of the change-point primitive, the  *)
(* construction of the blocks, the provisional baseline, the two           *)
(* classification passes, the outlier demotion with the region grouping    *)
(* and the per-band output, then the cross-band tail of process.           *)
(*                                                                         *)
(* Numbers.  Times, magnitudes and errors are integers.  Every derived     *)
(* quantity of the code is a mean or a root of a sum of squares, so it is  *)
(* kept exactly: a block's mean is magSum / measurements_nu, its error     *)
(* sqrt(errSq) / measurements_nu; a baseline is num / den with uncertainty *)
(* sqrt(var) / vden.  Comparisons are made after cross-multiplying and     *)
(* squaring, so no rounding enters.  The change-point primitive            *)
(* (astropy.stats.bayesian_blocks) is external: its result is any edge     *)
(* sequence allowed by its contract.                                       *)
(***************************************************************************)
EXTENDS Integers, Sequences, FiniteSets, TLC

VARIABLES
    flux,               \* self.flux
    Npoints,            \* self.Npoints
    data_type,          \* self.data_type
    filter,             \* self.filter, a sequence of band names
    fid,                \* position of the band loop, 1..Len(filter)+1
    pc,                 \* position inside process
    sigma_discr,        \* position of the two-pass loop: 1, 2, (3 = left)
    df,                 \* the band's photometry, sorted by jd
    edges,              \* the edges returned by the primitive
    segment_calls,      \* per band, how often the primitive was called
    baye_block,         \* the band's blocks
    baseline,           \* the current (baseline, baseline_sigma)
    history,            \* per pass: the baseline used and the levels it gave
    output,             \* the band's output dict
    output_per_filter,  \* the outputs stored so far, by position in filter
    t2_output,          \* the cross-band keys of the result
    phot_len,           \* per band fetched so far, len(phot_tuple) (0 for None)
    photopoints,        \* T2DustEchoEval: len(light_curve.photopoints)
    t2_views,           \* T2DustEchoEval: the units of the tied views, in order
    eval_pc,            \* T2DustEchoEval: position inside process
    key,                \* T2DustEchoEval: position of the loop over self.filter
    eval_output,        \* T2DustEchoEval: its t2_output dict and result code
    excess_region,      \* T2DustEchoEval: the lists of the excess_region dict
    maybe_interesting,  \* T2DustEchoEval: "True", "False", "unbound" at first
    read,               \* T2DustEchoEval: what the last band step looked up
    nside,              \* deres: nside of the given indices
    ipix,               \* deres: the pixel indices given
    min_nside,          \* deres: minimum nside of complete pixels
    decomposed,         \* deres: per super_nside, the superpixels found
    deres_pc            \* deres: "idle", "called" or "returned"

vars == <<flux, Npoints, data_type, filter, fid, pc, sigma_discr, df, edges,
          segment_calls, baye_block, baseline, history, output,
          output_per_filter, t2_output, phot_len, photopoints, t2_views,
          eval_pc, key, eval_output, excess_region, maybe_interesting, read,
          nside, ipix, min_nside, decomposed, deres_pc>>

\* the state of a call of deres
deresvars == <<nside, ipix, min_nside, decomposed, deres_pc>>

\* the state of T2DustEchoEval.process
evalvars == <<photopoints, t2_views, eval_pc, key, eval_output, excess_region,
              maybe_interesting, read>>

----------------------------------------------------------------------------
(* Bounds of the model.                                                    *)

\* photopoints per band, in runs whose times are free (duplicates, gaps)
MaxMeas == 3
\* the times of those runs are 2, 4, .., 2 * MaxJd (edges may be odd)
MaxJd == 3
\* the photopoints of a band when several bands are processed
MaxFew == 2
\* photopoints per band in runs with distinct, evenly spaced times
MaxSeries == 4
\* the excess regions of a stored output and the times of their windows
MaxRegions == 2
MaxAggJd == 3
\* bands of the filter list in multi-band runs
NBands == 2
\* the longest ZTF photometry of a band: one row more than the rolling window
MaxZtf == 11
\* bands and tied views of an evaluated result
MaxKeys == 3
MaxViews == 1

\* deres: the largest nside and min_nside, the largest pixel index of a run
\* of consecutive indices, and the largest index of the freely chosen ones
MaxNside == 4
MaxPix == 20
MaxExtra == 4

\* the values photopoints take
MagValues == {0, 1, 5}
ErrValues == {1, 3}
NpValues == {1, 2}
\* the small value sets of the runs with free times
MagFew == {0, 5}
ErrFew == {1}
\* the peak values and squared z-scores of the regions of a stored output
AggMags == {1, 2}
AggSigmas == {<<1, 1>>, <<4, 1>>}

----------------------------------------------------------------------------
(* Program constants.                                                      *)

\* rej_sigma: float = 3
rej_sigma == 3
\* outliers(): measurements_nu[value[0]] < 5
outlier_max_nu == 5
\* outliers(): sigma_from_baseline > 5.0
outlier_sigma == 5

\* np.nan: the marker of an undefined error or uncertainty
NaN == -1

DataTypes == {"ztf_alert", "ztf_fp", "wise"}
ZtfTypes == {"ztf_alert", "ztf_fp"}
IBandNames == {"ZTF_i", "ztf_i", "ztfi"}

----------------------------------------------------------------------------
(* Arithmetic helpers.                                                     *)

Abs(x) == IF x < 0 THEN -x ELSE x

RECURSIVE SeqSum(_)
SeqSum(s) == IF s = <<>> THEN 0 ELSE s[1] + SeqSum(Tail(s))

Map(s, Op(_)) == [i \in 1..Len(s) |-> Op(s[i])]

RECURSIVE Flatten(_)
Flatten(ss) == IF ss = <<>> THEN <<>> ELSE ss[1] \o Flatten(Tail(ss))

SetMin(S) == CHOOSE x \in S : \A y \in S : x <= y
SetMax(S) == CHOOSE x \in S : \A y \in S : x >= y

\* x <= sqrt(p) + sqrt(q), for p, q >= 0
LeqSqrtSum(x, p, q) ==
    \/ x <= 0
    \/ x * x <= p
    \/ x * x <= q
    \/ x * x - p - q <= 0
    \/ (x * x - p - q) * (x * x - p - q) <= 4 * p * q

----------------------------------------------------------------------------
(* Optional values and the floats that may be NaN or infinite.             *)

None == [isNone |-> TRUE, list |-> <<>>]
Some(l) == [isNone |-> FALSE, list |-> l]

\* the float a / b of numpy, where only the kind and the square matter:
\* aSq / bSq is the square of the quotient
Quotient(aSq, bSq) ==
    IF bSq = 0
    THEN [kind |-> IF aSq = 0 THEN "nan" ELSE "inf", sq |-> <<0, 1>>]
    ELSE [kind |-> "finite", sq |-> <<aSq, bSq>>]

Zero == [kind |-> "finite", sq |-> <<0, 1>>]

----------------------------------------------------------------------------
(* The photometry of a band.                                               *)

JdValues == {2 * k : k \in 1..MaxJd}

Row(jd, mag, err, np) ==
    [jd |-> jd, mag |-> mag, err |-> err, Npoints |-> np, Outlier |-> FALSE]

\* what get_ntuples can return when the times are free
RowsFree(withNp) ==
    {Row(jd, mag, err, np) :
        jd \in JdValues, mag \in MagFew, err \in ErrFew,
        np \in IF withNp THEN NpValues ELSE {1}}

PhotFree(withNp) ==
    UNION {[1..n -> RowsFree(withNp)] : n \in 0..MaxMeas}

PhotFew(withNp) ==
    UNION {[1..n -> RowsFree(withNp)] : n \in 0..MaxFew}

\* what get_ntuples can return for a series of distinct, evenly spaced times
PhotSeries ==
    UNION {{[i \in 1..n |-> Row(2 * i, mags[i], errs[i], 1)] :
                mags \in [1..n -> MagValues], errs \in [1..n -> ErrValues]} :
           n \in 0..MaxSeries}

\* df.sort_values(by=["jd"], ignore_index=True)
RECURSIVE SortByJd(_)
SortByJd(t) ==
    IF t = <<>> THEN <<>>
    ELSE LET r == t[Len(t)]
             s == SortByJd(SubSeq(t, 1, Len(t) - 1))
             k == Cardinality({i \in 1..Len(s) : s[i].jd <= r.jd})
         IN SubSeq(s, 1, k) \o <<r>> \o SubSeq(s, k + 1, Len(s))

\* df[df["jd"].between(lo, hi, inclusive="both")], as row numbers
IdxBetween(d, lo, hi) == {i \in 1..Len(d) : lo <= d[i].jd /\ d[i].jd <= hi}

RowsBetween(d, lo, hi) == SelectSeq(d, LAMBDA r : lo <= r.jd /\ r.jd <= hi)

\* np.unique(df["jd"].values)
UniqueJd(d) == {d[i].jd : i \in 1..Len(d)}

----------------------------------------------------------------------------
(* The per-band output dict.                                               *)

\* the dict of empty lists each band starts with
EmptyOutput ==
    [nu_of_excess_regions |-> <<>>, nu_of_excess_blocks |-> <<>>,
     nu_of_baseline_blocks |-> <<>>, jd_excess_regions |-> <<>>,
     max_mag_excess_region |-> <<>>, max_sigma_excess_region |-> <<>>,
     baseline |-> <<>>, baseline_sigma |-> <<>>,
     jd_baseline_regions |-> <<>>, jd_outlier |-> Some(<<>>),
     mag_edge_baseline |-> <<>>, significance_of_fluctuation |-> <<>>,
     significance |-> <<>>,
     strength_sjoert |-> <<>>, description |-> <<>>]

\* a no-data output that keeps the empty jd_outlier list and description
\* the band started with
NoDataOutputKeepsLists ==
    [nu_of_excess_regions |-> <<0>>, nu_of_excess_blocks |-> <<0>>,
     nu_of_baseline_blocks |-> <<0>>, jd_excess_regions |-> << <<0>> >>,
     max_mag_excess_region |-> << <<0>> >>,
     max_sigma_excess_region |-> << <<0, 1>> >>,
     baseline |-> << <<0, 1>> >>, baseline_sigma |-> << <<0, 1>> >>,
     jd_baseline_regions |-> << <<0>> >>, jd_outlier |-> Some(<<>>),
     mag_edge_baseline |-> << <<0>> >>,
     significance_of_fluctuation |-> << <<0>> >>, significance |-> <<Zero>>,
     strength_sjoert |-> <<Zero>>, description |-> <<>>]

\* the output of a band without photometry; a scalar 0 appended to a list
\* whose entries are otherwise lists is written <<0>>
NoDataOutput ==
    [nu_of_excess_regions |-> <<0>>, nu_of_excess_blocks |-> <<0>>,
     nu_of_baseline_blocks |-> <<0>>, jd_excess_regions |-> << <<0>> >>,
     max_mag_excess_region |-> << <<0>> >>,
     max_sigma_excess_region |-> << <<0, 1>> >>,
     baseline |-> << <<0, 1>> >>, baseline_sigma |-> << <<0, 1>> >>,
     jd_baseline_regions |-> << <<0>> >>, jd_outlier |-> None,
     mag_edge_baseline |-> << <<0>> >>,
     significance_of_fluctuation |-> << <<0>> >>, significance |-> <<Zero>>,
     strength_sjoert |-> <<Zero>>, description |-> <<"None">>]

----------------------------------------------------------------------------
(* Segmentation: the edges and the blocks.                                 *)

\* the edge sequences the primitive may return for the times of d: they
\* start at the first time, end at the last, and are strictly increasing
\* in between (for a single distinct time t they are <<t, t>>)
RECURSIVE SortSet(_)
SortSet(S) ==
    IF S = {} THEN <<>> ELSE <<SetMin(S)>> \o SortSet(S \ {SetMin(S)})

EdgeChoices(d) ==
    LET lo == SetMin(UniqueJd(d))
        hi == SetMax(UniqueJd(d))
    IN {<<lo>> \o SortSet(I) \o <<hi>> : I \in SUBSET ((lo + 1)..(hi - 1))}

\* the square of measurements_nu * mag_err: for "wise" the uncertainty of
\* the mean, for "ztf_fp" the root mean square about the mean
BlockErrSq(rows, dt) ==
    IF dt = "wise"
    THEN IF \E i \in 1..Len(rows) : rows[i].err = NaN THEN NaN
         ELSE SeqSum(Map(rows, LAMBDA r : r.err * r.err))
    ELSE Len(rows) * SeqSum(Map(rows, LAMBDA r : r.mag * r.mag))
         - SeqSum(Map(rows, LAMBDA r : r.mag)) * SeqSum(Map(rows, LAMBDA r : r.mag))

\* one row of baye_block, from the rows between two successive edges
MakeBlock(d, lo, hi, dt) ==
    LET I == IdxBetween(d, lo, hi)
        last == SetMax({d[i].jd : i \in I})
        rows == RowsBetween(d, lo, hi)
    IN [jd_start |-> lo, jd_end |-> hi,
        jd_measurement_start |-> SetMin({d[i].jd : i \in I}),
        jd_measurement_end |-> last,
        magSum |-> SeqSum(Map(rows, LAMBDA r : r.mag)),
        errSq |-> BlockErrSq(rows, dt),
        measurements_nu |-> Len(rows),
        mag_edge |-> d[SetMin({i \in I : d[i].jd = last})].mag,
        Npoints |-> Map(rows, LAMBDA r : r.Npoints),
        level |-> "None",
        sigma_from_old_baseline |-> <<0, 1>>,
        sigma_from_baseline |-> <<0, 1>>]

\* min() of an empty block raises
EmptyBlock(d, e) == \E i \in 2..Len(e) : IdxBetween(d, e[i - 1], e[i]) = {}

BuildBlocks(d, e, dt) ==
    [i \in 1..(Len(e) - 1) |-> MakeBlock(d, e[i], e[i + 1], dt)]

----------------------------------------------------------------------------
(* The provisional baseline: baseline().                                   *)

\* block means, compared exactly
MagLess(a, b) == a.magSum * b.measurements_nu < b.magSum * a.measurements_nu
MagEq(a, b) == a.magSum * b.measurements_nu = b.magSum * a.measurements_nu

\* Series.idxmin / idxmax over the rows I of bb: the first extremal row
IdxMin(bb, I) == SetMin({i \in I : \A j \in I : ~MagLess(bb[j], bb[i])})
IdxMax(bb, I) == SetMin({i \in I : \A j \in I : ~MagLess(bb[i], bb[j])})

\* the first row whose mean equals that of sort_values(by=["mag"]).iloc[1]
\* (flux) or .iloc[-2] (magnitudes)
SecondIdx(bb, isFlux) ==
    LET All == 1..Len(bb)
        first == IF isFlux THEN IdxMin(bb, All) ELSE IdxMax(bb, All)
        next == IF isFlux THEN IdxMin(bb, All \ {first})
                ELSE IdxMax(bb, All \ {first})
    IN SetMin({k \in All : MagEq(bb[k], bb[next])})

\* (value, uncertainty) of one block: mag and mag.err
OfBlock(b) ==
    [num |-> b.magSum, den |-> b.measurements_nu,
     var |-> b.errSq, vden |-> b.measurements_nu]

\* np.mean of the uarray of the means and errors of two blocks
OfTwoBlocks(a, b) ==
    [num |-> a.magSum * b.measurements_nu + b.magSum * a.measurements_nu,
     den |-> 2 * a.measurements_nu * b.measurements_nu,
     var |-> IF a.errSq = NaN \/ b.errSq = NaN THEN NaN
             ELSE a.errSq * b.measurements_nu * b.measurements_nu
                  + b.errSq * a.measurements_nu * a.measurements_nu,
     vden |-> 2 * a.measurements_nu * b.measurements_nu]

\* the largest defined mag.err of the blocks (NaN sorts last)
LargestErr(bb) ==
    LET D == {i \in 1..Len(bb) : bb[i].errSq # NaN}
        m == CHOOSE i \in D : \A j \in D :
                 bb[j].errSq * bb[i].measurements_nu * bb[i].measurements_nu
                 <= bb[i].errSq * bb[j].measurements_nu * bb[j].measurements_nu
    IN IF D = {} THEN [var |-> NaN, vden |-> 1]
       ELSE [var |-> bb[m].errSq, vden |-> bb[m].measurements_nu]

\* the levels baseline() writes into the frame it is given
BaselineMarks(bb, isFlux) ==
    LET All == 1..Len(bb)
        first == IF isFlux THEN IdxMin(bb, All) ELSE IdxMax(bb, All)
    IN IF bb[first].measurements_nu = 1
       THEN [i \in All |->
                IF i = first \/ i = SecondIdx(bb, isFlux)
                THEN [bb[i] EXCEPT !.level = "baseline"] ELSE bb[i]]
       ELSE bb

\* iloc[1] / iloc[-2] of a frame with a single row raises
BaselineRaises(bb, isFlux) ==
    LET All == 1..Len(bb)
        first == IF isFlux THEN IdxMin(bb, All) ELSE IdxMax(bb, All)
    IN bb[first].measurements_nu = 1 /\ Len(bb) < 2

\* the (baseline, baseline_sigma) baseline() returns
BaselineValue(bb, isFlux) ==
    LET All == 1..Len(bb)
        first == IF isFlux THEN IdxMin(bb, All) ELSE IdxMax(bb, All)
        second == SecondIdx(bb, isFlux)
        got == IF bb[first].measurements_nu # 1 THEN OfBlock(bb[first])
               ELSE IF second = first THEN OfBlock(bb[first])
               ELSE OfTwoBlocks(bb[first], bb[second])
    IN IF got.var = NaN
       THEN [got EXCEPT !.var = LargestErr(bb).var, !.vden = LargestErr(bb).vden]
       ELSE got

----------------------------------------------------------------------------
(* The classification: baye_block_levels() and the two passes.             *)

\* the square of |baseline - mag| / baseline_sigma, as a fraction
SigmaFrom(b, bl) ==
    IF bl.var = NaN THEN <<NaN, 1>>
    ELSE <<(b.magSum * bl.den - bl.num * b.measurements_nu) * bl.vden
           * (b.magSum * bl.den - bl.num * b.measurements_nu) * bl.vden,
           b.measurements_nu * b.measurements_nu * bl.den * bl.den * bl.var>>

\* z < k and z > k for a squared z-score (false for a NaN)
SigmaLt(z, k) == z[1] # NaN /\ z[2] # 0 /\ z[1] < k * k * z[2]
SigmaGt(z, k) ==
    z[1] # NaN /\ ((z[2] # 0 /\ z[1] > k * k * z[2]) \/ (z[2] = 0 /\ z[1] > 0))

\* baseline + rej_sigma * baseline_sigma >= mag
\*     >= baseline - rej_sigma * baseline_sigma
InRange(b, bl) ==
    LET z == SigmaFrom(b, bl)
    IN z[1] # NaN /\ z[1] <= rej_sigma * rej_sigma * z[2]

\* baseline + rej_sigma * baseline_sigma >= mag - mag.err
BelowUpper(b, bl) ==
    LeqSqrtSum((b.magSum * bl.den - bl.num * b.measurements_nu) * bl.vden,
               rej_sigma * rej_sigma * b.measurements_nu * b.measurements_nu
                   * bl.den * bl.den * bl.var,
               bl.den * bl.den * bl.vden * bl.vden * b.errSq)

\* the level baye_block_levels gives one row
LevelOf(b, bl) ==
    IF b.errSq = NaN
    THEN IF SigmaLt(SigmaFrom(b, bl), rej_sigma) THEN "baseline" ELSE "excess"
    ELSE IF b.level # "baseline"
    THEN IF InRange(b, bl) /\ BelowUpper(b, bl)
         THEN "baseline" ELSE "excess"
    ELSE b.level

\* a relabelling of every row from scratch, the baseline rows included
BayeBlockLevelsOfAllRows(bb, bl) ==
    [i \in 1..Len(bb) |->
        [bb[i] EXCEPT !.level = LevelOf([bb[i] EXCEPT !.level = "None"], bl)]]

\* baye_block[level != "baseline"] = baye_block_levels(that part, ...)
BayeBlockLevels(bb, bl) ==
    [i \in 1..Len(bb) |->
        IF bb[i].level # "baseline"
        THEN [bb[i] EXCEPT !.level = LevelOf(bb[i], bl)] ELSE bb[i]]

\* the rows of df inside the measurement spans of the baseline blocks
BaselineRows(d, bb) ==
    Flatten([i \in 1..Len(bb) |->
        IF bb[i].level = "baseline"
        THEN RowsBetween(d, bb[i].jd_measurement_start, bb[i].jd_measurement_end)
        ELSE <<>>])

\* np.mean of the uarray of the rows: (baseline, baseline_sigma)
OfRows(rows) ==
    [num |-> SeqSum(Map(rows, LAMBDA r : r.mag)), den |-> Len(rows),
     var |-> IF \E i \in 1..Len(rows) : rows[i].err = NaN THEN NaN
             ELSE SeqSum(Map(rows, LAMBDA r : r.err * r.err)),
     vden |-> Len(rows)]

\* mean_squared_error(values, [baseline] * n, squared=False), squared
RmsSq(values, bl) ==
    <<SeqSum(Map(values, LAMBDA v : (v * bl.den - bl.num) * (v * bl.den - bl.num))),
      bl.den * bl.den * Len(values)>>

SetSigma(bb, bl, pass) ==
    [i \in 1..Len(bb) |->
        IF pass = 1
        THEN [bb[i] EXCEPT !.sigma_from_old_baseline = SigmaFrom(bb[i], bl)]
        ELSE [bb[i] EXCEPT !.sigma_from_baseline = SigmaFrom(bb[i], bl)]]

Levels(bb) == [i \in 1..Len(bb) |-> bb[i].level]

----------------------------------------------------------------------------
(* Regions and outliers.                                                   *)

\* mit.consecutive_groups of the rows S, each group an ascending list
RECURSIVE ConsecutiveGroups(_)
ConsecutiveGroups(S) ==
    IF S = {} THEN <<>>
    ELSE LET lo == SetMin(S)
             hi == SetMax({k \in S : (lo..k) \subseteq S})
         IN <<[i \in 1..(hi - lo + 1) |-> lo + i - 1]>>
            \o ConsecutiveGroups(S \ (lo..hi))

WithLevel(bb, l) == {i \in 1..Len(bb) : bb[i].level = l}
NotExcess(bb) == {i \in 1..Len(bb) : bb[i].level # "excess"}

\* the single-block excess regions outliers() looks at
SmallSingles(bb) ==
    LET regions == ConsecutiveGroups(WithLevel(bb, "excess"))
    IN {regions[k][1] : k \in {k \in 1..Len(regions) :
            Len(regions[k]) = 1
            /\ bb[regions[k][1]].measurements_nu < outlier_max_nu}}

\* (array == 1) and ...: the truth value of an array of several
\* elements is ambiguous and raises
OutliersRaises(bb) == \E i \in SmallSingles(bb) : Len(bb[i].Npoints) > 1

\* the blocks outliers() demotes
Demoted(bb) ==
    {i \in SmallSingles(bb) :
        /\ Len(bb[i].Npoints) = 1
        /\ bb[i].Npoints[1] = 1
        /\ SigmaGt(bb[i].sigma_from_baseline, outlier_sigma)}

\* outliers(): the frame of blocks and the photometry it leaves
Outliers(bb) ==
    [i \in 1..Len(bb) |->
        IF i \in Demoted(bb) THEN [bb[i] EXCEPT !.level = "outlier"] ELSE bb[i]]

OutliersDf(d, bb) ==
    LET firsts == {SetMin(IdxBetween(d, bb[i].jd_measurement_start,
                                        bb[i].jd_measurement_end)) :
                      i \in Demoted(bb)}
    IN [r \in 1..Len(d) |->
           IF r \in firsts THEN [d[r] EXCEPT !.Outlier = TRUE] ELSE d[r]]

\* description(): the shape code of every excess region
Description(regions, bb) ==
    [k \in 1..Len(regions) |->
        IF Len(regions[k]) = 1
        THEN IF bb[regions[k][1]].measurements_nu = 1 THEN "[0]" ELSE "[1]"
        ELSE "[2]"]

\* the block of the global peak among the excess blocks
GlobalPeakIdx(bb, isFlux) ==
    IF isFlux THEN IdxMax(bb, WithLevel(bb, "excess"))
    ELSE IdxMin(bb, WithLevel(bb, "excess"))

\* the magnitudes that enter everything_except_excess_rms: the rows before
\* and after the excess region of the global peak that are no outliers
EverythingExceptExcess(d, bb, isFlux) ==
    LET regions == ConsecutiveGroups(WithLevel(bb, "excess"))
        g == CHOOSE k \in 1..Len(regions) :
                 \E n \in 1..Len(regions[k]) :
                     regions[k][n] = GlobalPeakIdx(bb, isFlux)
        idx == regions[g]
        rows == SelectSeq(d, LAMBDA r :
                    \/ r.jd < bb[idx[1]].jd_measurement_start /\ ~r.Outlier
                    \/ r.jd > bb[idx[Len(idx)]].jd_measurement_end /\ ~r.Outlier)
    IN Map(rows, LAMBDA r : r.mag)

\* the magnitudes of the rows of the baseline blocks
BaselineValues(d, bb) == Map(BaselineRows(d, bb), LAMBDA r : r.mag)

\* a / b for two roots given by their squares <<n, d>>
Ratio(aSq, bSq) == Quotient(aSq[1] * bSq[2], aSq[2] * bSq[1])

\* max / min of the magnitudes that are no outliers
MaxMag(d, isFlux) ==
    LET M == {d[i].mag : i \in {i \in 1..Len(d) : ~d[i].Outlier}}
    IN IF isFlux THEN SetMax(M) ELSE SetMin(M)

\* what the loop over baseline_regions_idx emits for one group
BaselineEmission(idx, bb) ==
    LET n == Len(idx)
    IN IF bb[idx[n]].level = "outlier"
       THEN IF n # 1
            THEN <<[idx |-> idx, nu |-> n - 1,
                    jd |-> <<bb[idx[1]].jd_measurement_start,
                             bb[idx[n] - 1].jd_measurement_end>>,
                    mag_edge |-> <<bb[idx[n] - 1].mag_edge>>]>>
            ELSE <<>>
       ELSE IF bb[idx[1]].level = "outlier"
       THEN IF n # 1
            THEN <<[idx |-> idx, nu |-> n - 1,
                    jd |-> <<bb[idx[1] + 1].jd_measurement_start,
                             bb[idx[n]].jd_measurement_end>>,
                    mag_edge |-> <<bb[idx[n]].mag_edge>>]>>
            ELSE <<>>
       ELSE <<[idx |-> idx, nu |-> n,
               jd |-> <<bb[idx[1]].jd_measurement_start,
                        bb[idx[n]].jd_measurement_end>>,
               mag_edge |-> <<bb[idx[n]].mag_edge>>]>>

BaselineEmissions(bb) ==
    LET groups == ConsecutiveGroups(NotExcess(bb))
    IN Flatten([k \in 1..Len(groups) |-> BaselineEmission(groups[k], bb)])

\* the largest of a non-empty set of squared z-scores
MaxSigma(Z) == CHOOSE z \in Z : \A y \in Z : y[1] * z[2] <= z[1] * y[2]

\* what the loop over excess_regions_idx emits for one region
ExcessEmission(idx, d, bb, isFlux) ==
    LET n == Len(idx)
        lo == bb[idx[1]].jd_measurement_start
        hi == bb[idx[n]].jd_measurement_end
        M == {d[i].mag : i \in IdxBetween(d, lo, hi)}
    IN [idx |-> idx, nu |-> n, jd |-> <<lo, hi>>,
        max_sigma |-> MaxSigma({bb[i].sigma_from_baseline : i \in idx[1]..idx[n]}),
        max_mag |-> <<IF isFlux THEN SetMax(M) ELSE SetMin(M)>>]

ExcessEmissions(d, bb, isFlux) ==
    LET regions == ConsecutiveGroups(WithLevel(bb, "excess"))
    IN [k \in 1..Len(regions) |-> ExcessEmission(regions[k], d, bb, isFlux)]

\* find_peaks of the means of the blocks idx padded with their minimum on
\* both sides, as positions in idx: the middle of every run of equal means
\* that is above both of its neighbours
LocalPeaks(bb, idx) ==
    LET n == Len(idx)
        Above(a, b) ==
            /\ b \in 1..n => MagLess(bb[idx[b]], bb[idx[a]])
            /\ b \notin 1..n =>
                  \E j \in 1..n : MagLess(bb[idx[j]], bb[idx[a]])
    IN SortSet({(w[1] + w[2]) \div 2 : w \in
                   {w \in (1..n) \X (1..n) :
                       /\ w[1] <= w[2]
                       /\ \A j \in w[1]..w[2] : MagEq(bb[idx[j]], bb[idx[w[1]]])
                       /\ Above(w[1], w[1] - 1)
                       /\ Above(w[2], w[2] + 1)}})

\* (mag[g] - mag[i]) / sqrt(sum(mag.err ** 2)) over all blocks, as the
\* fraction <<n, d>> of its square, n with the sign of the difference
Fluctuation(bb, g, i) ==
    LET P[k \in 0..Len(bb)] ==
            IF k = 0 THEN 1
            ELSE P[k - 1] * bb[k].measurements_nu * bb[k].measurements_nu
        all == P[Len(bb)]
        errs == SeqSum([k \in 1..Len(bb) |->
                    bb[k].errSq
                    * (all \div (bb[k].measurements_nu * bb[k].measurements_nu))])
        diff == bb[g].magSum * bb[i].measurements_nu
                - bb[i].magSum * bb[g].measurements_nu
        both == bb[g].measurements_nu * bb[i].measurements_nu
    IN <<(IF diff < 0 THEN -1 ELSE 1) * diff * diff * all, both * both * errs>>

\* output["significance_of_fluctuation"] of a band with excess regions: the
\* lists before and after the peak, appended for the region whose idxmax is
\* the global peak
SignificanceOfFluctuation(regions, bb, isFlux) ==
    LET g == GlobalPeakIdx(bb, isFlux)
        hit == {k \in 1..Len(regions) :
                   IdxMax(bb, {regions[k][j] : j \in 1..Len(regions[k])}) = g}
    IN IF hit = {} THEN <<>>
       ELSE LET idx == regions[CHOOSE k \in hit : TRUE]
                peaks == Map(LocalPeaks(bb, idx), LAMBDA q : idx[q])
            IN <<Map(SelectSeq(peaks, LAMBDA i : i < g),
                     LAMBDA i : Fluctuation(bb, g, i)),
                 Map(SelectSeq(peaks, LAMBDA i : i > g),
                     LAMBDA i : Fluctuation(bb, g, i))>>

\* float(to_string()) of the time scales of the brightest excess blocks
\* raises when several excess blocks share the extreme mean
TimescaleRaises(bb, isFlux) ==
    /\ WithLevel(bb, "excess") # {}
    /\ Cardinality({i \in WithLevel(bb, "excess") :
                       MagEq(bb[i], bb[GlobalPeakIdx(bb, isFlux)])}) > 1

----------------------------------------------------------------------------
(* The cross-band tail: coincide_peak_block() and the global excess.       *)

\* np.argmax / np.argmin of a list of one-element lists: the first extreme
ArgMaxMag(l, isFlux) ==
    SetMin({i \in 1..Len(l) : \A j \in 1..Len(l) :
               IF isFlux THEN l[j][1] <= l[i][1] ELSE l[i][1] <= l[j][1]})

\* np.argmax of a list of squared z-scores
ArgMaxSigma(l) ==
    SetMin({i \in 1..Len(l) : \A j \in 1..Len(l) :
               l[j][1] * l[i][2] <= l[i][1] * l[j][2]})

\* the window of the first excess region of one band, whatever its peak
PeakWindowOfFirstRegion(o, isFlux) == o.jd_excess_regions[1]

\* the window of the most extreme excess region of one band
PeakWindow(o, isFlux) ==
    o.jd_excess_regions[ArgMaxMag(o.max_mag_excess_region, isFlux)]

\* a test that only looks whether an end of the base window lies in w
WindowsCoincideAtEnds(start_region, end_region, w) ==
    \/ w[2] >= start_region /\ start_region >= w[1]
    \/ w[2] >= end_region /\ end_region >= w[1]

\* the test of coincide_peak_block between the window of the base filter
\* and the window w of a compared filter
WindowsCoincide(start_region, end_region, w) ==
    \/ w[2] >= start_region /\ start_region >= w[1]
    \/ w[2] >= end_region /\ end_region >= w[1]
    \/ start_region <= w[1] /\ w[1] <= end_region

\* coincide_peak_block(output_per_filter): the number of coinciding filters
CoincideRegion(opf, filt, isFlux, dt) ==
    IF opf[1].nu_of_excess_regions[1] = 0 THEN 0
    ELSE LET base == PeakWindow(opf[1], isFlux)
         IN Cardinality({k \in 2..Len(filt) :
                /\ ~(dt \in ZtfTypes /\ filt[k] \in IBandNames)
                /\ opf[k].nu_of_excess_regions[1] # 0
                /\ WindowsCoincide(base[1], base[2], PeakWindow(opf[k], isFlux))})

\* the bands that have an excess region, in filter order
WithExcess(opf) == {k \in 1..Len(opf) : opf[k].nu_of_excess_regions[1] # 0}

\* start_excess and size_excess as the loop over the bands leaves them
GlobalExcess(opf) ==
    IF WithExcess(opf) = {}
    THEN [start_excess |-> None, size_excess |-> 0]
    ELSE LET o == opf[SetMax(WithExcess(opf))]
             w == o.jd_excess_regions[ArgMaxSigma(o.max_sigma_excess_region)]
         IN [start_excess |-> Some(<<w[1]>>), size_excess |-> w[2] - w[1]]

----------------------------------------------------------------------------
(* The rolling-window rejection of ZTF photometry.                         *)

\* the k-th smallest of a sequence of numbers
RECURSIVE SortNums(_)
SortNums(t) ==
    IF t = <<>> THEN <<>>
    ELSE LET r == t[Len(t)]
             s == SortNums(SubSeq(t, 1, Len(t) - 1))
             k == Cardinality({i \in 1..Len(s) : s[i] <= r})
         IN SubSeq(s, 1, k) \o <<r>> \o SubSeq(s, k + 1, Len(s))

\* row i is kept when it lies within 3 std of the median of the 10 rows
\* that end with it; the first 9 rows have no window and are dropped
RollingKeeps(t, i) ==
    /\ i >= 10
    /\ LET w == [k \in 1..10 |-> t[i - 10 + k].mag]
           sorted == SortNums(w)
           sum == SeqSum(w)
           sumSq == SeqSum(Map(w, LAMBDA v : v * v))
       IN 10 * (2 * t[i].mag - sorted[5] - sorted[6])
             * (2 * t[i].mag - sorted[5] - sorted[6])
          <= 40 * sumSq - 4 * sum * sum

RECURSIVE Rolling(_, _)
Rolling(t, i) ==
    IF i > Len(t) THEN <<>>
    ELSE (IF RollingKeeps(t, i) THEN <<t[i]>> ELSE <<>>) \o Rolling(t, i + 1)

----------------------------------------------------------------------------
(* The state machine.                                                      *)

NoBaseline == [num |-> 0, den |-> 1, var |-> 0, vden |-> 1]

NoT2Output == [coincide_peak_block |-> 0, start_excess |-> None, size_excess |-> 0]

\* what T2DustEchoEval.process starts from: its two dicts as constructed
NoEvalOutput == [description |-> <<>>, status |-> "unset", result |-> "unset"]

NoExcessRegion ==
    [excess_jd |-> <<>>, baseline_jd |-> <<>>, start_baseline_jd |-> <<>>,
     max_mag |-> <<>>, max_mag_jd |-> <<>>, e_rise |-> <<>>, e_fade |-> <<>>]

NoRead == [key |-> 0]

\* T2DustEchoEval.process has not been called
\* deres is not called
DeresIdle ==
    /\ nside = 1
    /\ ipix = {}
    /\ min_nside = 1
    /\ decomposed = <<>>
    /\ deres_pc = "idle"

EvalIdle ==
    /\ photopoints = 0
    /\ t2_views = <<>>
    /\ eval_pc = "idle"
    /\ key = 1
    /\ eval_output = NoEvalOutput
    /\ excess_region = NoExcessRegion
    /\ maybe_interesting = "unbound"
    /\ read = NoRead

\* the state at the head of the band loop for the configuration given
Start(isFlux, withNp, dt, filt) ==
    /\ flux = isFlux
    /\ Npoints = withNp
    /\ data_type = dt
    /\ filter = filt
    /\ fid = 1
    /\ pc = "fetch"
    /\ sigma_discr = 1
    /\ df = <<>>
    /\ edges = <<>>
    /\ segment_calls = [k \in 1..Len(filt) |-> 0]
    /\ baye_block = <<>>
    /\ baseline = NoBaseline
    /\ history = <<>>
    /\ output = EmptyOutput
    /\ output_per_filter = <<>>
    /\ t2_output = NoT2Output
    /\ phot_len = <<>>
    /\ EvalIdle

\* where the loop goes after the band fid
AfterBand == IF fid = Len(filter) THEN "aggregate" ELSE "fetch"

\* phot_tuple is None or has at most one row: the zeroed output, continue
NoData(P) ==
    /\ pc = "fetch"
    /\ ~(data_type = "ztf_alert" /\ flux)
    /\ \E phot \in P :
        /\ Len(phot) <= 1
        /\ phot_len' = Append(phot_len, Len(phot))
    /\ output_per_filter' = Append(output_per_filter, NoDataOutput)
    /\ fid' = fid + 1
    /\ pc' = AfterBand
    /\ UNCHANGED <<evalvars, deresvars>>
    /\ UNCHANGED <<flux, Npoints, data_type, filter, sigma_discr, df, edges,
                   segment_calls, baye_block, baseline, history, output,
                   t2_output>>

\* the photometry of the band becomes df
Fetch(P) ==
    /\ pc = "fetch"
    /\ ~(data_type = "ztf_alert" /\ flux)
    /\ \E phot \in P :
        /\ Len(phot) > 1
        /\ phot_len' = Append(phot_len, Len(phot))
        /\ df' = SortByJd(IF data_type \in ZtfTypes THEN Rolling(phot, 1) ELSE phot)
    /\ pc' = "segment"
    /\ UNCHANGED <<evalvars, deresvars>>
    /\ UNCHANGED <<flux, Npoints, data_type, filter, fid, sigma_discr, edges,
                   segment_calls, baye_block, baseline, history, output,
                   output_per_filter, t2_output>>

\* raise ValueError("Not implemented yet"): alerts have no fluxes
FetchFails ==
    /\ pc = "fetch"
    /\ data_type = "ztf_alert" /\ flux
    /\ pc' = "error"
    /\ UNCHANGED <<evalvars, deresvars>>
    /\ UNCHANGED <<phot_len, flux, Npoints, data_type, filter, fid, sigma_discr,
                   df, edges, segment_calls, baye_block, baseline, history,
                   output, output_per_filter, t2_output>>

\* math.log10(len(df)) of an empty df raises, and for "ztf_alert" neither
\* ncp_prior nor mag_err is bound
SegmentRaises == data_type = "ztf_alert" \/ df = <<>>

\* the primitive is called and the blocks are built from its edges
Segment ==
    /\ pc = "segment"
    /\ IF SegmentRaises
       THEN pc' = "error" /\ UNCHANGED <<edges, segment_calls, baye_block>>
       ELSE \E e \in EdgeChoices(df) :
               /\ edges' = e
               /\ segment_calls' = [segment_calls EXCEPT ![fid] = @ + 1]
               /\ IF EmptyBlock(df, e)
                  THEN pc' = "error" /\ UNCHANGED baye_block
                  ELSE /\ baye_block' = BuildBlocks(df, e, data_type)
                       /\ pc' = "baseline"
    /\ UNCHANGED <<evalvars, deresvars>>
    /\ UNCHANGED <<phot_len, flux, Npoints, data_type, filter, fid, sigma_discr, df,
                   baseline, history, output, output_per_filter, t2_output>>

\* (baseline, baseline_sigma) = self.baseline(baye_block, self.flux)
FindBaseline ==
    /\ pc = "baseline"
    /\ IF BaselineRaises(baye_block, flux)
       THEN pc' = "error" /\ UNCHANGED <<baye_block, baseline>>
       ELSE /\ baye_block' = BaselineMarks(baye_block, flux)
            /\ baseline' = BaselineValue(baye_block, flux)
            /\ pc' = "levels"
    /\ sigma_discr' = 1
    /\ history' = <<>>
    /\ UNCHANGED <<evalvars, deresvars>>
    /\ UNCHANGED <<phot_len, flux, Npoints, data_type, filter, fid, df, edges,
                   segment_calls, output, output_per_filter, t2_output>>

\* one pass of the loop over sigma_discr: relabel, then recompute the
\* baseline from the rows of the baseline blocks and the z-scores from it
LevelsPass ==
    /\ pc = "levels"
    /\ LET bb == BayeBlockLevels(baye_block, baseline)
           new == OfRows(BaselineRows(df, bb))
       IN IF WithLevel(bb, "baseline") = {}
          THEN /\ pc' = "error"
               /\ UNCHANGED <<baye_block, baseline, history, sigma_discr>>
          ELSE /\ baye_block' = SetSigma(bb, new, sigma_discr)
               /\ baseline' = new
               /\ history' = Append(history,
                      [used |-> baseline, levels |-> Levels(bb), refined |-> new])
               /\ sigma_discr' = sigma_discr + 1
               /\ pc' = IF sigma_discr = 2 THEN "regions" ELSE "levels"
    /\ UNCHANGED <<evalvars, deresvars>>
    /\ UNCHANGED <<phot_len, flux, Npoints, data_type, filter, fid, df, edges,
                   segment_calls, output, output_per_filter, t2_output>>

\* the output dict of a band, from the blocks and photometry left after
\* the outlier demotion
BandOutput(d, bb, bl, isFlux, jdOutlier) ==
    LET ex == ExcessEmissions(d, bb, isFlux)
        ba == BaselineEmissions(bb)
        rms == IF WithLevel(bb, "excess") # {}
               THEN RmsSq(EverythingExceptExcess(d, bb, isFlux), bl)
               ELSE RmsSq(BaselineValues(d, bb), bl)
        top == MaxMag(d, isFlux) * bl.den - bl.num
    IN [nu_of_excess_regions |-> <<Len(ex)>>,
        nu_of_excess_blocks |->
            IF Len(ex) = 0 THEN <<0>> ELSE Map(ex, LAMBDA r : r.nu),
        nu_of_baseline_blocks |-> Map(ba, LAMBDA r : r.nu),
        jd_excess_regions |->
            IF Len(ex) = 0 THEN << <<0>> >> ELSE Map(ex, LAMBDA r : r.jd),
        max_mag_excess_region |->
            IF Len(ex) = 0 THEN << <<0>> >> ELSE Map(ex, LAMBDA r : r.max_mag),
        max_sigma_excess_region |->
            IF Len(ex) = 0 THEN << <<0, 1>> >> ELSE Map(ex, LAMBDA r : r.max_sigma),
        baseline |-> << <<bl.num, bl.den>> >>,
        baseline_sigma |-> << <<bl.var, bl.vden * bl.vden>> >>,
        jd_baseline_regions |-> Map(ba, LAMBDA r : r.jd),
        jd_outlier |-> jdOutlier,
        mag_edge_baseline |-> Map(ba, LAMBDA r : r.mag_edge),
        significance_of_fluctuation |->
            IF Len(ex) = 0 THEN << <<0>>, <<0>> >>
            ELSE SignificanceOfFluctuation(Map(ex, LAMBDA r : r.idx), bb, isFlux),
        significance |-> <<Ratio(rms, <<bl.var, bl.vden * bl.vden>>)>>,
        strength_sjoert |-> <<Ratio(<<top * top, bl.den * bl.den>>, rms)>>,
        description |->
            IF Len(ex) = 0 THEN <<"None">>
            ELSE Description(Map(ex, LAMBDA r : r.idx), bb)]

\* the spans of the outlier blocks, or None
JdOutlier(bb) ==
    LET O == SortSet(WithLevel(bb, "outlier"))
    IN IF O = <<>> THEN None
       ELSE Some(Map(O, LAMBDA i : <<bb[i].jd_measurement_start,
                                     bb[i].jd_measurement_end>>))

\* the excess regions, the outlier demotion and the statistics of the band
Regions ==
    /\ pc = "regions"
    /\ LET some == WithLevel(baye_block, "excess") # {}
           demote == some /\ Npoints
           bb == IF demote THEN Outliers(baye_block) ELSE baye_block
           d == IF demote THEN OutliersDf(df, baye_block) ELSE df
           jdOutlier == IF ~some THEN Some(<<>>)
                        ELSE IF Npoints THEN JdOutlier(bb) ELSE None
       IN IF \/ demote /\ OutliersRaises(baye_block)
             \/ TimescaleRaises(bb, flux)
             \/ WithLevel(bb, "excess") # {}
                /\ EverythingExceptExcess(d, bb, flux) = <<>>
          THEN pc' = "error" /\ UNCHANGED <<baye_block, df, output>>
          ELSE /\ baye_block' = bb
               /\ df' = d
               /\ output' = BandOutput(d, bb, baseline, flux, jdOutlier)
               /\ pc' = "emit"
    /\ UNCHANGED <<evalvars, deresvars>>
    /\ UNCHANGED <<phot_len, flux, Npoints, data_type, filter, fid, sigma_discr, edges,
                   segment_calls, baseline, history, output_per_filter,
                   t2_output>>

\* output_per_filter[str(passband)] = dict(output), and the head of the
\* next iteration: a fresh baye_block and output (the other locals of the
\* finished iteration are dead)
EmitBand ==
    /\ pc = "emit"
    /\ output_per_filter' = Append(output_per_filter, output)
    /\ fid' = fid + 1
    /\ pc' = AfterBand
    /\ baye_block' = <<>>
    /\ output' = EmptyOutput
    /\ df' = <<>>
    /\ edges' = <<>>
    /\ baseline' = NoBaseline
    /\ history' = <<>>
    /\ sigma_discr' = 1
    /\ UNCHANGED <<evalvars, deresvars>>
    /\ UNCHANGED <<phot_len, flux, Npoints, data_type, filter, segment_calls, t2_output>>

\* the cross-band keys the tail of process adds to the stored outputs opf
TailKeys(opf, filt, isFlux, dt) ==
    [coincide_peak_block |->
        IF CoincideRegion(opf, filt, isFlux, dt) >= 1 THEN 1 ELSE -1,
     start_excess |-> GlobalExcess(opf).start_excess,
     size_excess |-> GlobalExcess(opf).size_excess]

\* the tail of process: coincide_peak_block, start_excess, size_excess
Aggregate ==
    /\ pc = "aggregate"
    /\ t2_output' = TailKeys(output_per_filter, filter, flux, data_type)
    /\ pc' = "done"
    /\ UNCHANGED <<evalvars, deresvars>>
    /\ UNCHANGED <<phot_len, flux, Npoints, data_type, filter, fid, sigma_discr, df,
                   edges, segment_calls, baye_block, baseline, history, output,
                   output_per_filter>>

----------------------------------------------------------------------------
(* Specifications.                                                         *)

BandNames == <<"W1", "W2", "W3", "W4">>

\* process over NBands bands of at most MaxFew photopoints each
Init ==
    \E isFlux \in BOOLEAN, withNp \in BOOLEAN :
        Start(isFlux, withNp, "wise", SubSeq(BandNames, 1, NBands)) /\ DeresIdle

Next ==
    \/ NoData(PhotFew(Npoints))
    \/ Fetch(PhotFew(Npoints))
    \/ Segment
    \/ FindBaseline
    \/ LevelsPass
    \/ Regions
    \/ EmitBand
    \/ Aggregate

Spec == Init /\ [][Next]_vars

\* process over one band of at most MaxMeas photopoints with free times
InitBand ==
    \E isFlux \in BOOLEAN, withNp \in BOOLEAN :
        Start(isFlux, withNp, "wise", <<"W1">>) /\ DeresIdle

NextBand ==
    \/ NoData(PhotFree(Npoints))
    \/ Fetch(PhotFree(Npoints))
    \/ Segment
    \/ FindBaseline
    \/ LevelsPass
    \/ Regions
    \/ EmitBand
    \/ Aggregate

SpecBand == InitBand /\ [][NextBand]_vars

\* process over one band of at most MaxSeries evenly spaced photopoints
InitSeries ==
    \E isFlux \in BOOLEAN :
        Start(isFlux, FALSE, "wise", <<"W1">>) /\ DeresIdle

NextSeries ==
    \/ NoData(PhotSeries)
    \/ Fetch(PhotSeries)
    \/ Segment
    \/ FindBaseline
    \/ LevelsPass
    \/ Regions
    \/ EmitBand
    \/ Aggregate

SpecSeries == InitSeries /\ [][NextSeries]_vars

\* what get_ntuples can return in a run of any data type: a few rows, or for
\* the ZTF types a series that fills the rolling window of 10 rows
PhotTypes ==
    PhotFew(FALSE)
    \cup (IF data_type \in ZtfTypes
          THEN UNION {{[i \in 1..n |-> Row(2 * i, mags[i], 1, 1)] :
                          mags \in [1..n -> MagFew]} : n \in 10..MaxZtf}
          ELSE {})

\* process over one band, for every data type the assert at its head accepts
InitTypes ==
    \E isFlux \in BOOLEAN, dt \in DataTypes :
        /\ Start(isFlux, FALSE, dt,
                 IF dt \in ZtfTypes THEN <<"ZTF_g">> ELSE <<"W1">>)
        /\ DeresIdle

NextTypes ==
    \/ FetchFails
    \/ NoData(PhotTypes)
    \/ Fetch(PhotTypes)
    \/ Segment
    \/ FindBaseline
    \/ LevelsPass
    \/ Regions
    \/ EmitBand
    \/ Aggregate

SpecTypes == InitTypes /\ [][NextTypes]_vars

\* the tail of process over the stored outputs of at most NBands bands, each
\* with at most MaxRegions excess regions on the times 1..MaxAggJd
AggWindows == {w \in (1..MaxAggJd) \X (1..MaxAggJd) : w[1] <= w[2]}

AggRegions ==
    UNION {{r \in [1..n -> [jd : AggWindows, max_mag : AggMags,
                            max_sigma : AggSigmas]] :
               \A k \in 1..(n - 1) : r[k].jd[2] < r[k + 1].jd[1]} :
           n \in 0..MaxRegions}

\* "ztf_alert" only gets past bands without photometry (SegmentRaises)
AggRegionsOf(dt) == IF dt = "ztf_alert" THEN {<<>>} ELSE AggRegions

\* a stored output with the excess regions r
AggOutput(r) ==
    IF r = <<>> THEN NoDataOutput
    ELSE [NoDataOutput EXCEPT
            !.nu_of_excess_regions = <<Len(r)>>,
            !.nu_of_excess_blocks = Map(r, LAMBDA x : 1),
            !.jd_excess_regions = Map(r, LAMBDA x : x.jd),
            !.max_mag_excess_region = Map(r, LAMBDA x : <<x.max_mag>>),
            !.max_sigma_excess_region = Map(r, LAMBDA x : x.max_sigma),
            !.nu_of_baseline_blocks = <<1>>,
            !.jd_outlier = None,
            !.description = Map(r, LAMBDA x : "[0]")]

AggFilters(dt) ==
    LET names == IF dt \in ZtfTypes THEN {"ZTF_g", "ZTF_r", "ZTF_i"}
                 ELSE {"W1", "W2"}
    IN {f \in UNION {[1..n -> names] : n \in 1..NBands} :
           \A i, j \in 1..Len(f) : i # j => f[i] # f[j]}

InitAgg ==
    \E isFlux \in BOOLEAN, dt \in DataTypes :
        \E filt \in AggFilters(dt) :
            \E rs \in [1..Len(filt) -> AggRegionsOf(dt)] :
                /\ flux = isFlux
                /\ Npoints = FALSE
                /\ data_type = dt
                /\ filter = filt
                /\ fid = Len(filt) + 1
                /\ pc = "aggregate"
                /\ sigma_discr = 1
                /\ df = <<>>
                /\ edges = <<>>
                /\ segment_calls = [k \in 1..Len(filt) |-> 1]
                /\ baye_block = <<>>
                /\ baseline = NoBaseline
                /\ history = <<>>
                /\ output = EmptyOutput
                /\ output_per_filter = [k \in 1..Len(filt) |-> AggOutput(rs[k])]
                /\ t2_output = NoT2Output
                /\ phot_len = [k \in 1..Len(filt) |-> 2]
                /\ EvalIdle
                /\ DeresIdle

NextAgg == Aggregate

SpecAgg == InitAgg /\ [][NextAgg]_vars

----------------------------------------------------------------------------
(* baye_block_levels on its own: one call on a frame of blocks.            *)

\* frames of one or two single-measurement blocks (an error of NaN is
\* undefined), with the levels an earlier pass or baseline() may have left
LevelFrames ==
    UNION {{[i \in 1..n |->
                [MakeBlock([k \in 1..n |-> Row(2 * k, mags[k], errs[k], 1)],
                           2 * i - 1, 2 * i + 1, "wise")
                 EXCEPT !.level = levels[i]]] :
             mags \in [1..n -> {0, 2, 3, 4}], errs \in [1..n -> {1, NaN}],
             levels \in [1..n -> {"None", "excess", "baseline"}]} : n \in 1..2}

\* the (baseline, baseline_sigma) given to the call
LevelBaselines ==
    {[num |-> b, den |-> 1, var |-> v, vden |-> 1] : b \in {0, 1}, v \in {1, NaN}}

InitLevels ==
    \E isFlux \in BOOLEAN, bb \in LevelFrames, bl \in LevelBaselines :
        /\ flux = isFlux
        /\ Npoints = FALSE
        /\ data_type = "wise"
        /\ filter = <<"W1">>
        /\ fid = 1
        /\ pc = "levels"
        /\ sigma_discr = 1
        /\ df = <<>>
        /\ edges = <<>>
        /\ segment_calls = <<1>>
        /\ baye_block = bb
        /\ baseline = bl
        /\ history = <<>>
        /\ output = EmptyOutput
        /\ output_per_filter = <<>>
        /\ t2_output = NoT2Output
        /\ phot_len = <<Len(bb)>>
        /\ EvalIdle
        /\ DeresIdle

\* baye_block[level != "baseline"] = self.baye_block_levels(that part,
\* baseline, baseline_sigma); history keeps the levels the call was given
CallLevels ==
    /\ pc = "levels"
    /\ history = <<>>
    /\ baye_block' = BayeBlockLevels(baye_block, baseline)
    /\ history' = <<[used |-> baseline, given |-> Levels(baye_block)]>>
    /\ pc' = "relabelled"
    /\ UNCHANGED <<evalvars, deresvars>>
    /\ UNCHANGED <<phot_len, flux, Npoints, data_type, filter, fid, df, edges,
                   segment_calls, sigma_discr, baseline, output,
                   output_per_filter, t2_output>>

NextLevels == CallLevels

SpecLevels == InitLevels /\ [][NextLevels]_vars

----------------------------------------------------------------------------
(* T2DustEchoEval.process: the evaluation of a T2BayesianBlocks result.    *)
(* The floats it compares are written as integers; NaN is the marker of a  *)
(* 0.0 / 0.0 and of the string 'nan'.  The e-folding times are computed    *)
(* from the photometry with logarithms: they are drawn from values on both *)
(* sides of the limits.  The plotting that follows the status is left out. *)

EvalTimes == {100, 500, 2300}

EvalWindows == {w \in EvalTimes \X EvalTimes : w[1] <= w[2]}

\* the regions of a band in time order: disjoint windows whose levels
\* alternate between baseline and excess
EvalTimelines ==
    UNION {{t \in [1..n -> EvalWindows] :
               \A k \in 1..(n - 1) : t[k][2] < t[k + 1][1]} :
           n \in 1..(MaxRegions + 1)}

\* every second window of t, from the first (odd) or from the second
Every(t, odd) ==
    LET o == IF odd THEN 1 ELSE 0
    IN [k \in 1..((Len(t) + o) \div 2) |-> t[2 * k - o]]

\* max_mag_excess_region: inside and outside the intensity limits
EvalMags(isFlux) == IF isFlux THEN {-3, 10} ELSE {5, 10}

\* strength_sjoert: (max - baseline) / rms is never negative for fluxes,
\* (min - baseline) / rms never positive for magnitudes, 0 / 0 is NaN; the
\* significance of a band with photometry is 2
EvalStrengths(isFlux) == IF isFlux THEN {1, 2, 3} ELSE {-2, NaN}

\* the largest squared z-score of the blocks of a band with excess
EvalSigmas == {<<4, 1>>, <<16, 1>>}

\* the stored output of a band without photometry, with the keys the
\* evaluation reads before its loop over the bands
EvalNoData ==
    [nu_of_excess_regions |-> <<0>>, nu_of_baseline_blocks |-> <<0>>,
     jd_excess_regions |-> << <<0>> >>, max_mag_excess_region |-> << <<0>> >>,
     max_jd_excess_region |-> << <<0>> >>,
     max_sigma_excess_region |-> << <<0, 1>> >>,
     sigma_from_baseline |-> << << <<0, 1>> >> >>,
     baseline |-> <<0>>, jd_baseline_regions |-> << <<0>> >>,
     significance |-> <<0>>, strength_sjoert |-> <<0>>]

\* the stored output of a band with photometry whose regions are t
EvalOutput(t, excessFirst, mags, sigma, strength, nbb) ==
    LET ex == Every(t, excessFirst)
        ba == Every(t, ~excessFirst)
    IN [nu_of_excess_regions |-> <<Len(ex)>>,
        nu_of_baseline_blocks |-> [k \in 1..Len(ba) |-> nbb],
        jd_excess_regions |-> IF ex = <<>> THEN << <<0>> >> ELSE ex,
        max_mag_excess_region |->
            IF ex = <<>> THEN << <<0>> >> ELSE Map(mags, LAMBDA m : <<m>>),
        max_jd_excess_region |->
            IF ex = <<>> THEN << <<0>> >> ELSE Map(ex, LAMBDA w : <<w[1]>>),
        max_sigma_excess_region |->
            IF ex = <<>> THEN << <<0, 1>> >> ELSE Map(ex, LAMBDA w : sigma),
        sigma_from_baseline |-> << <<sigma>> >>,
        baseline |-> <<8>>, jd_baseline_regions |-> ba,
        significance |-> <<2>>, strength_sjoert |-> <<strength>>]

\* the stored outputs of one band of a result whose bands with excess have
\* the largest squared z-score sigma
EvalStored(isFlux, sigma) ==
    {EvalNoData}
    \cup {EvalOutput(t, FALSE, <<>>, <<1, 1>>, IF isFlux THEN 1 ELSE -2, nbb) :
             t \in {<< <<100, 2300>> >>}, nbb \in {1, 2}}
    \cup UNION {{EvalOutput(t, first, mags, sigma, strength, 1) :
                    mags \in [1..Len(Every(t, first)) -> EvalMags(isFlux)],
                    strength \in EvalStrengths(isFlux)} :
                t \in {u \in EvalTimelines : Len(u) >= 2},
                first \in BOOLEAN}

\* the units of the tied views
EvalViews ==
    UNION {[1..n -> {"T2BayesianBlocks", "T2Other"}] : n \in 0..MaxViews}

Tied(views) == \E v \in 1..Len(views) : views[v] = "T2BayesianBlocks"

\* description[idx][0] as a number
DescriptionCode(d) == IF d = "[0]" THEN 0 ELSE IF d = "[1]" THEN 1 ELSE 2

\* the keys the global-peak branch of T2BayesianBlocks fills for a region
\* of several blocks: (significance_of_variability_excess[1],
\* strength_after_peak, significance_after_peak); the last two exist when
\* at least two blocks follow the peak
AfterPeak ==
    {[significance_of_variability_excess |-> << <<>>, v >>,
      strength_after_peak |-> <<>>, significance_after_peak |-> <<>>] :
        v \in {<<>>}}
    \cup {[significance_of_variability_excess |-> << <<>>, v >>,
           strength_after_peak |-> <<s>>, significance_after_peak |-> <<1>>] :
             v \in {<<6, 4>>, <<6, 7>>}, s \in {4, 5}}

\* what the loop over the bands looks up for the region idx of a band: a
\* region of one block has no other block around its peak; for a region of
\* several blocks the global-peak branch is entered for fluxes and, the
\* faintest block of a region not being its brightest, not for magnitudes
Lookups(isFlux) ==
    {[description |-> d, nu_of_excess_blocks |-> 1,
      significance_of_fluctuation |-> << <<>>, <<>> >>,
      significance_of_variability_excess |-> << <<>>, <<>> >>,
      strength_after_peak |-> <<>>, significance_after_peak |-> <<>>] :
        d \in {"[0]", "[1]"}}
    \cup (IF isFlux
          THEN {[description |-> "[2]", nu_of_excess_blocks |-> 2,
                 significance_of_fluctuation |-> <<b, <<>> >>,
                 significance_of_variability_excess |->
                     a.significance_of_variability_excess,
                 strength_after_peak |-> a.strength_after_peak,
                 significance_after_peak |-> a.significance_after_peak] :
                   b \in {<<2>>, <<4>>}, a \in AfterPeak}
          ELSE {[description |-> "[2]", nu_of_excess_blocks |-> 2,
                 significance_of_fluctuation |-> <<>>,
                 significance_of_variability_excess |-> << <<>>, <<>> >>,
                 strength_after_peak |-> <<>>,
                 significance_after_peak |-> <<>>]})

\* a < b of two floats
Lt(a, b) == a # NaN /\ b # NaN /\ a < b

\* flatten(min(max_mag_excess_region))[0]
MinMag(o) == SetMin({o.max_mag_excess_region[k][1] :
                        k \in 1..Len(o.max_mag_excess_region)})

\* max(flatten(sigma_from_baseline[0])) < 3.
LowSigma(o) ==
    \A k \in 1..Len(o.sigma_from_baseline[1]) :
        o.sigma_from_baseline[1][k][1] < 9 * o.sigma_from_baseline[1][k][2]

\* the intensity limits; 1e17 is written as a number above every flux drawn
intensity_low_limit == IF flux THEN 0 ELSE 7
intensity_high_limit == IF flux THEN 1000000 ELSE 15

\* the condition of the first branch: no band has excess or a second
\* baseline block
AllOnlyBaseline ==
    \A k \in 1..Len(filter) :
        /\ output_per_filter[k].nu_of_excess_regions[1] = 0
        /\ output_per_filter[k].nu_of_baseline_blocks[1] <= 1

\* a test that also accepts a window of no extent
GlobalWindowOfAnySize ==
    ~t2_output.start_excess.isNone \/ t2_output.size_excess >= 0

\* start_excess != None or size_excess > 1.
GlobalWindow == ~t2_output.start_excess.isNone \/ t2_output.size_excess > 1

\* the label of the first rule that rejects the result, "" when none does
Rejection ==
    IF \A k \in 1..Len(filter) :
          \/ MinMag(output_per_filter[k]) < intensity_low_limit
          \/ MinMag(output_per_filter[k]) > intensity_high_limit
    THEN "Very low or high magnitude"
    ELSE IF \A k \in 1..Len(filter) : LowSigma(output_per_filter[k])
    THEN "Very low sigma"
    ELSE IF t2_output.coincide_peak_block = -1
    THEN "No coincide excess regions"
    ELSE IF \E k \in 1..Len(filter) :
               Lt(output_per_filter[k].strength_sjoert[1],
                  output_per_filter[k].significance[1])
    THEN "Low significance"
    ELSE ""

\* the state of T2BayesianBlocks.process, which the evaluation only reads
blockvars == <<flux, Npoints, data_type, filter, fid, pc, sigma_discr, df,
               edges, segment_calls, baye_block, baseline, history, output,
               output_per_filter, t2_output, phot_len>>

\* process has been called and T2BayesianBlocks, if tied, has returned
Called == eval_pc = "guard" /\ pc = "done"

\* both guards are passed
Guarded == Called /\ photopoints # 0 /\ t2_views # <<>>

\* t2_res[key]['baseline'] of every band, appended to max_mag
Baselines == [k \in 1..Len(filter) |-> output_per_filter[k].baseline]

\* no photopoints or no tied views: the missing-info result
MissingInfo ==
    /\ Called
    /\ photopoints = 0 \/ t2_views = <<>>
    /\ eval_output' = [eval_output EXCEPT !.result = "T2_MISSING_INFO"]
    /\ eval_pc' = "returned"
    /\ UNCHANGED <<deresvars, blockvars, photopoints, t2_views, key, excess_region,
                   maybe_interesting, read>>

\* no tied view is from T2BayesianBlocks: the loop over the views has no
\* effect and the status is computed from the empty lists
NoResult ==
    /\ Guarded
    /\ ~Tied(t2_views)
    /\ eval_pc' = "status"
    /\ UNCHANGED <<deresvars, blockvars, photopoints, t2_views, key, eval_output,
                   excess_region, maybe_interesting, read>>

\* no band has excess regions or more than one baseline block
OnlyBaseline ==
    /\ Guarded
    /\ Tied(t2_views)
    /\ AllOnlyBaseline
    /\ eval_output' = [eval_output EXCEPT
                          !.description = Append(@, "Only baseline")]
    /\ excess_region' = [excess_region EXCEPT !.max_mag = @ \o Baselines]
    /\ eval_pc' = "status"
    /\ UNCHANGED <<deresvars, blockvars, photopoints, t2_views, key, maybe_interesting,
                   read>>

\* the result has no global excess window
NoGlobalWindow ==
    /\ Guarded
    /\ Tied(t2_views)
    /\ ~AllOnlyBaseline
    /\ ~GlobalWindow
    /\ eval_output' = [eval_output EXCEPT
                          !.description = Append(@, "Only baseline")]
    /\ excess_region' = [excess_region EXCEPT !.max_mag = @ \o Baselines]
    /\ eval_pc' = "status"
    /\ UNCHANGED <<deresvars, blockvars, photopoints, t2_views, key, maybe_interesting,
                   read>>

\* one of the rules on the whole result rejects it
Reject ==
    /\ Guarded
    /\ Tied(t2_views)
    /\ ~AllOnlyBaseline
    /\ GlobalWindow
    /\ Rejection # ""
    /\ eval_output' = [eval_output EXCEPT
                          !.description = Append(@, Rejection)]
    /\ eval_pc' = "status"
    /\ UNCHANGED <<deresvars, blockvars, photopoints, t2_views, key, excess_region,
                   maybe_interesting, read>>

\* no rule rejects the result: the loop over the bands starts
Characterize ==
    /\ Guarded
    /\ Tied(t2_views)
    /\ ~AllOnlyBaseline
    /\ GlobalWindow
    /\ Rejection = ""
    /\ maybe_interesting' = "False"
    /\ key' = 1
    /\ eval_pc' = "bands"
    /\ UNCHANGED <<deresvars, blockvars, photopoints, t2_views, eval_output,
                   excess_region, read>>

\* the baseline regions that end before the window peak starts
Before(o, peak) ==
    {k \in 1..Len(o.jd_baseline_regions) :
        peak[1] - o.jd_baseline_regions[k][2] > 0}

\* the baseline regions that start after the window peak ends
After(o, peak) ==
    {k \in 1..Len(o.jd_baseline_regions) :
        peak[2] - o.jd_baseline_regions[k][1] < 0}

\* position: the nearest baseline region before peak, the first of equals
Nearest(o, peak) ==
    SetMin({k \in Before(o, peak) : \A j \in Before(o, peak) :
               o.jd_baseline_regions[j][2] <= o.jd_baseline_regions[k][2]})

\* a count of the base pixels along one side of a superpixel only
ScaleOfSide(ns, super_nside) == ns \div super_nside

\* a test of the gap that measures it from the end of the window
FarFromWindowEnd(o, peak) ==
    peak[2] - o.jd_baseline_regions[Nearest(o, peak)][2] > 500

\* the nearest baseline region before peak ends more than 500 days before it
FarBaseline(o, peak) ==
    peak[1] - o.jd_baseline_regions[Nearest(o, peak)][2] > 500

\* time scale of at least 3 years in at most one block
PhaseTransition(l, peak) ==
    peak[2] - peak[1] >= 1095 /\ l.nu_of_excess_blocks <= 1

\* the first test for a sharp drop, on the blocks after the peak
SharpVariability(l) ==
    LET after == l.significance_of_variability_excess[2]
    IN /\ DescriptionCode(l.description) > 1
       /\ Len(after) >= 2
       /\ after[1] > 5
       /\ after[2] < after[1]

\* the second test for a sharp drop, on the strength after the peak
SharpStrength(l) ==
    /\ l.strength_after_peak # <<>>
    /\ l.strength_after_peak[1] - l.significance_after_peak[1] > 3

\* what the body of the loop over the bands does for a band o with excess
\* whose looked-up keys are l
EvalBand(o, l, isFlux) ==
    LET idx == ArgMaxMag(o.max_mag_excess_region, isFlux)
        peak == o.jd_excess_regions[idx]
        code == DescriptionCode(l.description)
        none == Before(o, peak) = {}
        far == ~none /\ FarBaseline(o, peak)
        raises == l.significance_of_fluctuation = <<>>
        fluctuation == \E f \in 1..Len(l.significance_of_fluctuation[1]) :
                           l.significance_of_fluctuation[1][f] < 3
        first == IF none THEN "Only declination"
                 ELSE "Baseline before excess region"
        baseline_jd == IF none THEN 0
                       ELSE IF far THEN peak[1] - 182
                       ELSE o.jd_baseline_regions[Nearest(o, peak)][2]
        start == IF none THEN 0
                 ELSE o.jd_baseline_regions[Nearest(o, peak)][1]
        outlier == After(o, peak) # {} /\ code = 0
        last == IF SharpVariability(l) \/ SharpStrength(l)
                THEN "Sharp drop after peak"
                ELSE "Excess region with monotonic declination"
    IN IF PhaseTransition(l, peak)
       THEN [idx |-> idx, raises |-> FALSE, labels |-> <<"Phase transition">>,
             baseline_jd |-> <<>>, start_baseline_jd |-> <<>>,
             excess_jd |-> <<>>, interesting |-> FALSE]
       ELSE IF raises
       THEN [idx |-> idx, raises |-> TRUE, labels |-> <<first>>,
             baseline_jd |-> <<baseline_jd>>, start_baseline_jd |-> <<start>>,
             excess_jd |-> <<>>, interesting |-> far]
       ELSE IF fluctuation
       THEN [idx |-> idx, raises |-> FALSE,
             labels |-> <<first, "Fluctuation before peak">>,
             baseline_jd |-> <<baseline_jd>>, start_baseline_jd |-> <<start>>,
             excess_jd |-> <<>>, interesting |-> far]
       ELSE [idx |-> idx, raises |-> FALSE,
             labels |-> <<first>>
                        \o (IF outlier THEN <<"Outlier">> ELSE <<>>)
                        \o <<last>>,
             baseline_jd |-> <<baseline_jd>>, start_baseline_jd |-> <<start>>,
             excess_jd |-> <<peak[2]>>,
             interesting |-> far \/ (After(o, peak) = {} /\ code = 0)]

\* where the loop over the bands goes after the band key
AfterKey == IF key = Len(filter) THEN "status" ELSE "bands"

\* the band key has no excess region
BandOnlyBaseline ==
    /\ eval_pc = "bands"
    /\ output_per_filter[key].nu_of_excess_regions[1] = 0
    /\ eval_output' = [eval_output EXCEPT
                          !.description = Append(@, "Only baseline")]
    /\ excess_region' = [excess_region EXCEPT
                            !.max_mag = Append(@, output_per_filter[key].baseline)]
    /\ read' = NoRead
    /\ key' = key + 1
    /\ eval_pc' = AfterKey
    /\ UNCHANGED <<deresvars, blockvars, photopoints, t2_views, maybe_interesting>>

\* the band key has excess: its most extreme region is characterized
BandExcess ==
    /\ eval_pc = "bands"
    /\ output_per_filter[key].nu_of_excess_regions[1] # 0
    /\ \E l \in Lookups(flux) :
          LET o == output_per_filter[key]
              e == EvalBand(o, l, flux)
          IN /\ read' = [key |-> key, idx |-> e.idx, lookup |-> l]
             /\ eval_output' = [eval_output EXCEPT
                                   !.description = @ \o e.labels]
             /\ excess_region' =
                   [excess_region EXCEPT
                      !.max_mag = Append(@, o.max_mag_excess_region[e.idx]),
                      !.max_mag_jd = Append(@, o.max_jd_excess_region[e.idx]),
                      !.baseline_jd = @ \o e.baseline_jd,
                      !.start_baseline_jd = @ \o e.start_baseline_jd,
                      !.excess_jd = @ \o e.excess_jd]
             /\ maybe_interesting' = IF e.interesting THEN "True"
                                     ELSE maybe_interesting
             /\ eval_pc' = IF e.raises THEN "raised" ELSE AfterKey
    /\ key' = key + 1
    /\ UNCHANGED <<deresvars, blockvars, photopoints, t2_views>>

\* (e_rise, e_fade) of a band: within the limits of 1000 and 5000 days, or
\* one of them beyond its limit
EFolding == {<<100, 0>>, <<2000, 0>>, <<100, 6000>>}

Labels == {eval_output.description[k] : k \in 1..Len(eval_output.description)}

\* the test that decides whether rise and fade are computed
Investigate ==
    /\ Len(excess_region.excess_jd) >= 2
    /\ Len(excess_region.baseline_jd) >= 2
    /\ \E k \in 1..Len(excess_region.baseline_jd) :
          excess_region.baseline_jd[k] # 0
    /\ "Outlier" \notin Labels
    /\ "Sharp drop after peak" \notin Labels

\* a status code that leaves the flag out
StatusCodeWithoutFlag(e_rise, e_fade, interesting) ==
    IF \E k \in 1..Len(e_rise) : e_rise[k] = NaN
    THEN (IF /\ \A k \in 1..Len(e_rise) : e_rise[k] = NaN \/ e_rise[k] < 1000
             /\ \A k \in 1..Len(e_fade) : e_fade[k] = NaN \/ e_fade[k] < 5000
          THEN "3" ELSE "4")
    ELSE (IF /\ \A k \in 1..Len(e_rise) : e_rise[k] < 1000
             /\ \A k \in 1..Len(e_fade) : e_fade[k] < 5000
          THEN "1" ELSE "2")

\* the status code for the e-folding times and the flag
StatusCode(e_rise, e_fade, interesting) ==
    LET within == /\ \A k \in 1..Len(e_rise) :
                        e_rise[k] = NaN \/ e_rise[k] < 1000
                  /\ \A k \in 1..Len(e_fade) :
                        e_fade[k] = NaN \/ e_fade[k] < 5000
        nan == \E k \in 1..Len(e_rise) : e_rise[k] = NaN
        code == IF within THEN (IF nan THEN "3" ELSE "1")
                ELSE (IF nan THEN "4" ELSE "2")
    IN IF interesting = "False" THEN code
       ELSE IF code = "1" THEN "1_maybe_interesting"
       ELSE IF code = "2" THEN "2_maybe_interesting"
       ELSE IF code = "3" THEN "3_maybe_interesting"
       ELSE "4_maybe_interesting"

\* the lists are too short for the loop over self.filter, or the flag was
\* never assigned
StatusRaises ==
    \/ Len(excess_region.baseline_jd) < Len(filter)
    \/ Len(excess_region.excess_jd) < Len(filter)
    \/ Len(excess_region.max_mag_jd) < Len(filter)
    \/ maybe_interesting = "unbound"

\* rise, fade and the status, or 'No further investigation'; the dict is
\* returned
Status ==
    /\ eval_pc = "status"
    /\ IF ~Investigate
       THEN /\ eval_output' = [eval_output EXCEPT
                                  !.status = "No further investigation",
                                  !.result = "t2_output"]
            /\ eval_pc' = "returned"
            /\ UNCHANGED excess_region
       ELSE IF StatusRaises
       THEN /\ eval_pc' = "raised"
            /\ UNCHANGED <<eval_output, excess_region>>
       ELSE \E e \in [1..Len(filter) -> EFolding] :
               LET e_rise == [k \in 1..Len(filter) |->
                                 IF excess_region.baseline_jd[k] # 0
                                 THEN e[k][1] ELSE NaN]
                   e_fade == [k \in 1..Len(filter) |->
                                 IF excess_region.baseline_jd[k] # 0
                                 THEN e[k][2] ELSE NaN]
               IN /\ excess_region' = [excess_region EXCEPT
                                          !.e_rise = e_rise, !.e_fade = e_fade]
                  /\ eval_output' =
                        [eval_output EXCEPT
                           !.status = StatusCode(e_rise, e_fade,
                                                 maybe_interesting),
                           !.result = "t2_output"]
                  /\ eval_pc' = "returned"
    /\ UNCHANGED <<deresvars, blockvars, photopoints, t2_views, key, maybe_interesting,
                   read>>

\* the results of T2BayesianBlocks over the bands filt: the first NBands
\* of them supply photometry
EvalResults(filt, isFlux) ==
    UNION {{opf \in [1..Len(filt) -> EvalStored(isFlux, sigma)] :
               \A k \in 1..Len(filt) : k > NBands => opf[k] = EvalNoData} :
           sigma \in EvalSigmas}

\* process of T2DustEchoEval is called after T2BayesianBlocks has returned
\* its result over at most MaxKeys bands; a light curve without photopoints
\* or a state without a tied T2BayesianBlocks view has the zeroed result
InitEval ==
    \E isFlux \in BOOLEAN, views \in EvalViews, n \in {0, 2} :
        \E filt \in {SubSeq(BandNames, 1, b) : b \in 1..MaxKeys} :
            \E opf \in EvalResults(filt, isFlux) :
                /\ n = 0 => \A k \in 1..Len(filt) : opf[k] = EvalNoData
                /\ ~Tied(views) => \A k \in 1..Len(filt) : opf[k] = EvalNoData
                /\ flux = isFlux
                /\ Npoints = FALSE
                /\ data_type = "wise"
                /\ filter = filt
                /\ fid = Len(filt) + 1
                /\ pc = "done"
                /\ sigma_discr = 1
                /\ df = <<>>
                /\ edges = <<>>
                /\ segment_calls = [k \in 1..Len(filt) |-> 1]
                /\ baye_block = <<>>
                /\ baseline = NoBaseline
                /\ history = <<>>
                /\ output = EmptyOutput
                /\ output_per_filter = opf
                /\ t2_output = TailKeys(opf, filt, isFlux, "wise")
                /\ phot_len = [k \in 1..Len(filt) |-> n]
                /\ photopoints = n * Len(filt)
                /\ t2_views = views
                /\ eval_pc = "guard"
                /\ key = 1
                /\ eval_output = NoEvalOutput
                /\ excess_region = NoExcessRegion
                /\ maybe_interesting = "unbound"
                /\ read = NoRead
                /\ DeresIdle

NextEval ==
    \/ MissingInfo
    \/ NoResult
    \/ OnlyBaseline
    \/ NoGlobalWindow
    \/ Reject
    \/ Characterize
    \/ BandOnlyBaseline
    \/ BandExcess
    \/ Status

SpecEval == InitEval /\ [][NextEval]_vars

----------------------------------------------------------------------------
(* deres of AmpelHealpix: nested pixel indices as complete superpixels.    *)

\* int(math.log2(n)) for n >= 1
RECURSIVE Log2(_)
Log2(n) == IF n < 2 THEN 0 ELSE 1 + Log2(n \div 2)

\* number of base_nside pixels per nside superpixel
Scale(ns, super_nside) == (ns \div super_nside) * (ns \div super_nside)

\* the superpixels that len(members) == scale of the remaining pixels fill
Filled(remaining_pixels, scale) ==
    {superpix \in {pix \div scale : pix \in remaining_pixels} :
        Cardinality({pix \in remaining_pixels : pix \div scale = superpix})
            = scale}

\* the loop over log2_nside from the level given up to last; dec is the
\* dict built so far, a key exists once a superpixel was appended to it
RECURSIVE DeresFrom(_, _, _, _, _)
DeresFrom(log2_nside, last, ns, remaining_pixels, dec) ==
    IF log2_nside > last THEN dec
    ELSE LET super_nside == 2 ^ log2_nside
             scale == Scale(ns, super_nside)
             filled == Filled(remaining_pixels, scale)
         IN DeresFrom(log2_nside + 1, last, ns,
                      {pix \in remaining_pixels : pix \div scale \notin filled},
                      IF filled = {} THEN dec
                      ELSE [k \in DOMAIN dec \cup {super_nside} |->
                               IF k = super_nside THEN filled ELSE dec[k]])

\* deres(nside, ipix, min_nside): the dict returned, its lists as sets
Deres(ns, pixels, mn) == DeresFrom(Log2(mn), Log2(ns), ns, pixels, <<>>)

\* the index sets given: a run of consecutive indices, possibly empty, and
\* some of the first indices
Pixels ==
    {(lo..hi) \cup extra :
        lo \in 0..MaxPix, hi \in 0..MaxPix, extra \in SUBSET (0..MaxExtra)}

\* deres is called, outside of any run of the units
InitDeres ==
    \E ns \in 1..MaxNside, mn \in 1..MaxNside, pixels \in Pixels :
        /\ Start(FALSE, FALSE, "wise", <<"W1">>)
        /\ nside = ns
        /\ ipix = pixels
        /\ min_nside = mn
        /\ decomposed = <<>>
        /\ deres_pc = "called"

CallDeres ==
    /\ deres_pc = "called"
    /\ decomposed' = Deres(nside, ipix, min_nside)
    /\ deres_pc' = "returned"
    /\ UNCHANGED <<nside, ipix, min_nside, blockvars, evalvars>>

NextDeres == CallDeres

SpecDeres == InitDeres /\ [][NextDeres]_vars

----------------------------------------------------------------------------
(* Properties.                                                             *)

StrictlyIncreasing(e) == \A i \in 1..(Len(e) - 1) : e[i] < e[i + 1]

\* the blocks have just been built from edges
BlocksBuilt == pc = "baseline"

\* C1: for a band with at least 2 measurements and strictly increasing edges
\* from the first to the last time, the blocks partition the measurements:
\* every measurement lies in exactly one block, every block has at least one
\* member, and the member counts sum to the number of measurements.
C1_BlocksPartition ==
    (BlocksBuilt /\ Len(df) >= 2 /\ StrictlyIncreasing(edges)) =>
        /\ \A r \in 1..Len(df) :
              Cardinality({i \in 1..Len(baye_block) :
                  r \in IdxBetween(df, baye_block[i].jd_start,
                                   baye_block[i].jd_end)}) = 1
        /\ \A i \in 1..Len(baye_block) : baye_block[i].measurements_nu >= 1
        /\ SeqSum(Map(baye_block, LAMBDA b : b.measurements_nu)) = Len(df)

\* the bands whose photometry was missing or had at most one measurement
NoDataBands == {k \in 1..Len(phot_len) : phot_len[k] <= 1}

\* C2: a band whose photometry is missing or has at most one measurement is
\* no error: the primitive is not called for it, its result is stored at once
\* with zeroed statistics, description [None] and jd_outlier None, the loop
\* is then at a later band (so an exception never stems from such a band),
\* and a run that ends has a result for every band.
C2_NoDataBand ==
    /\ \A k \in NoDataBands :
          /\ segment_calls[k] = 0
          /\ Len(output_per_filter) >= k
          /\ fid > k
          /\ LET o == output_per_filter[k]
             IN /\ o.nu_of_excess_regions = <<0>>
                /\ o.nu_of_excess_blocks = <<0>>
                /\ o.nu_of_baseline_blocks = <<0>>
                /\ o.baseline = << <<0, 1>> >>
                /\ o.baseline_sigma = << <<0, 1>> >>
                /\ o.significance = <<[kind |-> "finite", sq |-> <<0, 1>>]>>
                /\ o.strength_sjoert = <<[kind |-> "finite", sq |-> <<0, 1>>]>>
                /\ o.jd_excess_regions = << <<0>> >>
                /\ o.jd_baseline_regions = << <<0>> >>
                /\ o.description = <<"None">>
                /\ o.jd_outlier.isNone
    /\ pc = "done" => Len(output_per_filter) = Len(filter)

\* a finished run whose first band had no data and whose second band was
\* segmented and got a baseline
C2_Witness ==
    /\ pc = "done"
    /\ Len(filter) >= 2
    /\ 1 \in NoDataBands
    /\ phot_len[2] >= 2
    /\ segment_calls[2] = 1
    /\ output_per_filter[2].nu_of_baseline_blocks # <<0>>

\* C3: a band with fewer than 2 distinct measurement times is never passed
\* to the segmentation primitive and gets the zeroed no-data result.
C3_DistinctTimes ==
    /\ (pc \notin {"fetch", "aggregate", "done"} /\ segment_calls[fid] > 0) =>
          Cardinality(UniqueJd(df)) >= 2
    /\ (pc = "emit" /\ Cardinality(UniqueJd(df)) < 2) =>
          output.description = <<"None">>

\* the band's output has just been computed from baye_block
OutputBuilt == pc = "emit"

\* the maximal runs <<a, b>> of consecutive blocks of level l, in order
RunSet(bb, l) ==
    {w \in (1..Len(bb)) \X (1..Len(bb)) :
        /\ w[1] <= w[2]
        /\ \A i \in w[1]..w[2] : bb[i].level = l
        /\ w[1] = 1 \/ bb[w[1] - 1].level # l
        /\ w[2] = Len(bb) \/ bb[w[2] + 1].level # l}

RECURSIVE SortRuns(_)
SortRuns(W) ==
    IF W = {} THEN <<>>
    ELSE LET w == CHOOSE x \in W : \A y \in W : x[1] <= y[1]
         IN <<w>> \o SortRuns(W \ {w})

Runs(bb, l) == SortRuns(RunSet(bb, l))

RunSpan(bb, w) == <<bb[w[1]].jd_measurement_start, bb[w[2]].jd_measurement_end>>

\* C4: the baseline regions emitted for a band are exactly the maximal runs
\* of consecutive baseline-level blocks (none contains or counts an outlier,
\* excess or unset block), and the excess regions are exactly the maximal
\* runs of consecutive excess-level blocks.
C4_MaximalRuns ==
    OutputBuilt =>
        LET base == Runs(baye_block, "baseline")
            exc == Runs(baye_block, "excess")
        IN /\ output.nu_of_baseline_blocks = Map(base, LAMBDA w : w[2] - w[1] + 1)
           /\ output.jd_baseline_regions = Map(base, LAMBDA w : RunSpan(baye_block, w))
           /\ IF exc = <<>>
              THEN output.nu_of_excess_regions = <<0>>
              ELSE /\ output.nu_of_excess_regions = <<Len(exc)>>
                   /\ output.nu_of_excess_blocks = Map(exc, LAMBDA w : w[2] - w[1] + 1)
                   /\ output.jd_excess_regions = Map(exc, LAMBDA w : RunSpan(baye_block, w))

\* block i is by itself an excess region of bb
SingleExcess(bb, i) ==
    /\ bb[i].level = "excess"
    /\ i = 1 \/ bb[i - 1].level # "excess"
    /\ i = Len(bb) \/ bb[i + 1].level # "excess"

\* C5: whatever the configuration, a single-block excess region whose block
\* has fewer than 5 measurements and lies more than 5 sigma from the baseline
\* is demoted: its level becomes outlier, its time span is listed in
\* jd_outlier, every measurement in its span is flagged, and it is in no
\* excess region afterwards.
C5_OutlierDemotion ==
    [][pc = "regions" =>
        \A i \in 1..Len(baye_block) :
            (/\ SingleExcess(baye_block, i)
             /\ baye_block[i].measurements_nu < 5
             /\ SigmaGt(baye_block[i].sigma_from_baseline, 5)) =>
                /\ pc' = "emit"
                /\ baye_block'[i].level = "outlier"
                /\ ~output'.jd_outlier.isNone
                /\ \E k \in 1..Len(output'.jd_outlier.list) :
                      output'.jd_outlier.list[k] =
                          <<baye_block[i].jd_measurement_start,
                            baye_block[i].jd_measurement_end>>
                /\ \A r \in IdxBetween(df, baye_block[i].jd_measurement_start,
                                       baye_block[i].jd_measurement_end) :
                      df'[r].Outlier
                /\ \A k \in 1..Len(output'.jd_excess_regions) :
                      output'.jd_excess_regions[k] #
                          <<baye_block[i].jd_measurement_start,
                            baye_block[i].jd_measurement_end>>]_vars

\* C6: once a block is an outlier, the baseline regions exclude it wherever
\* it lies: nu_of_baseline_blocks counts only baseline-level blocks, no
\* jd_baseline_regions span covers the outlier, and every mag_edge_baseline
\* is the edge magnitude of a baseline-level block.
C6_OutlierExcluded ==
    (OutputBuilt /\ WithLevel(baye_block, "outlier") # {}) =>
        /\ SeqSum(output.nu_of_baseline_blocks)
               = Cardinality(WithLevel(baye_block, "baseline"))
        /\ \A k \in 1..Len(output.jd_baseline_regions) :
              \A o \in WithLevel(baye_block, "outlier") :
                  ~(/\ output.jd_baseline_regions[k][1]
                           <= baye_block[o].jd_measurement_start
                    /\ baye_block[o].jd_measurement_end
                           <= output.jd_baseline_regions[k][2])
        /\ \A k \in 1..Len(output.mag_edge_baseline) :
              \E b \in WithLevel(baye_block, "baseline") :
                  output.mag_edge_baseline[k] = <<baye_block[b].mag_edge>>

\* the two passes are done: baye_block holds the classification they emit and
\* baseline the value recomputed from the blocks now labelled baseline
Classified == pc = "regions"

\* the levels a further run of the second pass would give
RerunLevels == Levels(BayeBlockLevels(baye_block, baseline))

C8_NeverNaN ==
    (OutputBuilt /\ Len(df) >= 2 /\ \A r \in 1..Len(df) : df[r].err # NaN) =>
        /\ output.baseline_sigma[1][1] # NaN
        /\ output.significance[1].kind # "nan"
        /\ output.strength_sjoert[1].kind # "nan"

\* process has returned
Returned == pc = "done"

HasExcess(o) == o.nu_of_excess_regions[1] # 0

\* the dominant excess window of a stored output: the first of the regions
\* whose peak value is the most extreme (largest flux, smallest magnitude)
Dominant(o) ==
    LET peak(i) == o.max_mag_excess_region[i][1]
        n == Len(o.max_mag_excess_region)
        extreme(i) == \A j \in 1..n :
                         IF flux THEN peak(j) <= peak(i) ELSE peak(i) <= peak(j)
    IN o.jd_excess_regions[
           CHOOSE i \in 1..n : extreme(i) /\ \A j \in 1..(i - 1) : ~extreme(j)]

\* two closed intervals have a point in common
Overlap(a, b) == a[1] <= b[2] /\ b[1] <= a[2]

\* the positions of the bands the first band is compared with
Compared ==
    {k \in 2..Len(filter) : ~(data_type \in ZtfTypes /\ filter[k] \in IBandNames)}

\* C9: coincide_peak_block is -1 or 1; it is 1 exactly when the first band
\* has an excess and its dominant window overlaps the dominant window of a
\* compared band with an excess; with two bands it is -1 when either band
\* has no excess region.
C9_CoincidePeakBlock ==
    Returned =>
        /\ t2_output.coincide_peak_block \in {-1, 1}
        /\ t2_output.coincide_peak_block = 1 <=>
              /\ HasExcess(output_per_filter[1])
              /\ \E k \in Compared :
                    /\ HasExcess(output_per_filter[k])
                    /\ Overlap(Dominant(output_per_filter[1]),
                               Dominant(output_per_filter[k]))
        /\ (/\ Len(filter) = 2
            /\ ~HasExcess(output_per_filter[1]) \/ ~HasExcess(output_per_filter[2]))
              => t2_output.coincide_peak_block = -1

\* a two-band run that coincides because the dominant window of the second
\* band lies strictly inside that of the first
C9_Witness ==
    /\ Returned
    /\ Len(filter) = 2
    /\ HasExcess(output_per_filter[1])
    /\ HasExcess(output_per_filter[2])
    /\ Dominant(output_per_filter[1])[1] < Dominant(output_per_filter[2])[1]
    /\ Dominant(output_per_filter[2])[2] < Dominant(output_per_filter[1])[2]
    /\ t2_output.coincide_peak_block = 1

Reverse(q) == [i \in 1..Len(q) |-> q[Len(q) + 1 - i]]

\* coincide_peak_block of the same stored outputs with the bands swapped
Swapped ==
    IF CoincideRegion(Reverse(output_per_filter), Reverse(filter), flux,
                      data_type) >= 1
    THEN 1 ELSE -1

BothOverlap ==
    /\ Len(filter) = 2
    /\ HasExcess(output_per_filter[1])
    /\ HasExcess(output_per_filter[2])
    /\ Overlap(Dominant(output_per_filter[1]), Dominant(output_per_filter[2]))

\* C10 as stated: with at most 2 bands, for every data_type and band name,
\* swapping the bands gives the same coincide_peak_block, and it is 1
\* whenever the dominant windows of the two bands overlap.
C10_SwapSymmetric ==
    (Returned /\ Len(filter) <= 2) =>
        /\ t2_output.coincide_peak_block = Swapped
        /\ BothOverlap => t2_output.coincide_peak_block = 1

\* no band of the run is one that coincide_peak_block skips
NoSkippedBand ==
    data_type \in ZtfTypes => \A k \in 1..Len(filter) : filter[k] \notin IBandNames

\* C10 amended: with at most 2 bands, none of them a ZTF i-band, swapping the
\* bands gives the same coincide_peak_block, and it is 1 whenever the
\* dominant windows of the two bands overlap.
C10_SwapSymmetricNoSkip ==
    (Returned /\ Len(filter) <= 2 /\ NoSkippedBand) =>
        /\ t2_output.coincide_peak_block = Swapped
        /\ BothOverlap => t2_output.coincide_peak_block = 1

\* a ZTF run of two bands, neither an i-band, whose dominant windows (not
\* the first regions) overlap, so that either order gives 1
C10_Witness ==
    /\ Returned
    /\ data_type \in ZtfTypes
    /\ NoSkippedBand
    /\ BothOverlap
    /\ output_per_filter[1].nu_of_excess_regions[1] = 2
    /\ Dominant(output_per_filter[1]) # output_per_filter[1].jd_excess_regions[1]
    /\ t2_output.coincide_peak_block = 1
    /\ Swapped = 1

\* the excess windows of all bands as <<band, region>>
AllWindows ==
    {w \in (1..Len(output_per_filter)) \X (1..MaxRegions + 1) :
        /\ HasExcess(output_per_filter[w[1]])
        /\ w[2] <= Len(output_per_filter[w[1]].jd_excess_regions)}

WindowSigma(w) == output_per_filter[w[1]].max_sigma_excess_region[w[2]]

WindowJd(w) == output_per_filter[w[1]].jd_excess_regions[w[2]]

\* no window of any band has a larger max_sigma than w
LargestSigma(w) ==
    \A v \in AllWindows :
        WindowSigma(v)[1] * WindowSigma(w)[2] <= WindowSigma(w)[1] * WindowSigma(v)[2]

\* C11: the emitted (start_excess, size_excess) is the start and duration of
\* an excess window with the largest max_sigma among the windows of all
\* bands, whatever the order of the bands; it is (None, 0) when no band has
\* an excess region.
C11_GlobalExcess ==
    Returned =>
        IF AllWindows = {}
        THEN t2_output.start_excess.isNone /\ t2_output.size_excess = 0
        ELSE \E w \in AllWindows :
                /\ LargestSigma(w)
                /\ t2_output.start_excess = Some(<<WindowJd(w)[1]>>)
                /\ t2_output.size_excess = WindowJd(w)[2] - WindowJd(w)[1]

\* T2DustEchoEval.process reads a T2BayesianBlocks result
Evaluated == photopoints # 0 /\ Tied(t2_views)

\* C12: when no band of the result that T2DustEchoEval.process reads has an
\* excess region, whatever the baseline blocks and the bands without
\* photometry, the loop over the bands that looks into the excess-region
\* lists is never entered, nothing raises, and the description is exactly
\* ['Only baseline'] from the rule on, up to the returned dict.
C12_OnlyBaseline ==
    (Evaluated /\ WithExcess(output_per_filter) = {}) =>
        /\ eval_pc \in {"guard", "status", "returned"}
        /\ read = NoRead
        /\ eval_pc # "guard" => eval_output.description = <<"Only baseline">>
        /\ eval_pc = "returned" => eval_output.result = "t2_output"

C12_Witness ==
    /\ Evaluated
    /\ WithExcess(output_per_filter) = {}
    /\ eval_pc = "returned"
    /\ eval_output.description = <<"Only baseline">>
    /\ \E k \in 1..Len(filter) :
          output_per_filter[k].nu_of_baseline_blocks[1] > 1
    /\ \E k \in 1..Len(filter) : output_per_filter[k] = EvalNoData

\* process has returned its dict
Completed == eval_pc = "returned" /\ eval_output.result = "t2_output"

PlainCodes == {"1", "2", "3", "4"}

FlaggedCodes == {"1_maybe_interesting", "2_maybe_interesting",
                 "3_maybe_interesting", "4_maybe_interesting"}

\* C13 as stated: every call that does not return the missing-info result
\* emits one of the 8 status codes.
C13_EightCodes ==
    Completed => eval_output.status \in PlainCodes \cup FlaggedCodes

\* the rise and fade times of the returned lists are within their limits
WithinLimits ==
    /\ \A k \in 1..Len(excess_region.e_rise) :
          excess_region.e_rise[k] = NaN \/ excess_region.e_rise[k] < 1000
    /\ \A k \in 1..Len(excess_region.e_fade) :
          excess_region.e_fade[k] = NaN \/ excess_region.e_fade[k] < 5000

SomeNaN ==
    \E k \in 1..Len(excess_region.e_rise) : excess_region.e_rise[k] = NaN

\* C13, amended: a returned dict carries one of the 8 status codes exactly
\* when rise and fade were computed, i.e. when the test on the accumulated
\* lists passed; the code then has the suffix iff maybe_interesting is set,
\* is '3' or '4' iff some band has 'nan' rise, and is '1' or '3' iff all
\* rise and fade times are below 1000 and 5000 days; every other returned
\* dict has the status 'No further investigation'.
C13_StatusCodes ==
    Completed =>
        /\ Investigate <=> excess_region.e_rise # <<>>
        /\ IF Investigate
           THEN /\ eval_output.status \in PlainCodes \cup FlaggedCodes
                /\ eval_output.status \in FlaggedCodes
                      <=> maybe_interesting = "True"
                /\ eval_output.status \in
                          {"3", "4", "3_maybe_interesting", "4_maybe_interesting"}
                      <=> SomeNaN
                /\ eval_output.status \in
                          {"1", "3", "1_maybe_interesting", "3_maybe_interesting"}
                      <=> WithinLimits
           ELSE eval_output.status = "No further investigation"

C13_Witness ==
    /\ Completed
    /\ Investigate
    /\ eval_output.status = "4_maybe_interesting"
    /\ SomeNaN
    /\ ~WithinLimits

\* C14: a call whose light curve has no photopoints, or whose tied views
\* hold no T2BayesianBlocks result (no views at all, or only views of other
\* units), returns the missing-info result and sets no status.
C14_MissingInfo ==
    (eval_pc = "returned" /\ (photopoints = 0 \/ ~Tied(t2_views))) =>
        /\ eval_output.result = "T2_MISSING_INFO"
        /\ eval_output.status = "unset"

\* the loop over the bands has just characterized the band read.key: the
\* last label of the description is the last label of that band
BandRead ==
    /\ read.key # 0
    /\ eval_pc \in {"bands", "status", "returned"}

LastLabel == eval_output.description[Len(eval_output.description)]

\* strength_after_peak - significance_after_peak > 3 for the keys looked up
ExceedsMargin(l) ==
    /\ Len(l.strength_after_peak) > 0
    /\ l.strength_after_peak[1] - l.significance_after_peak[1] > 3

\* C15: a band gets the label 'Sharp drop after peak' only if its drop after
\* the peak exceeds the margin strength_after_peak - significance_after_peak
\* > 3; a band on the other side of the margin does not get the label.
C15_SharpDrop ==
    (BandRead /\ LastLabel = "Sharp drop after peak") =>
        ExceedsMargin(read.lookup)

\* the call of baye_block_levels has relabelled the frame
Relabelled == pc = "relabelled"

\* |mag - baseline| <= rej_sigma * baseline_sigma and, when the error of the
\* block is defined, mag - mag.err <= baseline + rej_sigma * baseline_sigma
WithinRejSigma(b, bl) ==
    /\ InRange(b, bl)
    /\ b.errSq # NaN => BelowUpper(b, bl)

\* C16: a block not already labelled baseline gets the level 'baseline' iff
\* |mag - baseline| <= rej_sigma * baseline_sigma and, when its error is
\* defined, mag - mag.err <= baseline + rej_sigma * baseline_sigma, otherwise
\* 'excess'; the boundary is 'baseline' for defined and for NaN errors alike.
C16_LevelRule ==
    Relabelled =>
        \A i \in 1..Len(baye_block) :
            history[1].given[i] # "baseline" =>
                baye_block[i].level =
                    IF WithinRejSigma(baye_block[i], baseline)
                    THEN "baseline" ELSE "excess"

\* two squared z-scores are the same number (or both NaN)
SameSigma(z, w) ==
    IF z[1] = NaN \/ w[1] = NaN THEN z[1] = w[1]
    ELSE z[1] * w[2] = w[1] * z[2]

\* C17: classification runs exactly two passes; sigma_from_old_baseline is
\* each block's z-score against the provisional baseline, the one used to
\* classify in pass 1, and sigma_from_baseline its z-score against the
\* baseline recomputed after pass 1, the one used to classify in pass 2.
C17_TwoPasses ==
    Classified =>
        /\ Len(history) = 2
        /\ history[2].used = history[1].refined
        /\ \A i \in 1..Len(baye_block) :
              /\ SameSigma(baye_block[i].sigma_from_old_baseline,
                           SigmaFrom(baye_block[i], history[1].used))
              /\ SameSigma(baye_block[i].sigma_from_baseline,
                           SigmaFrom(baye_block[i], history[2].used))

\* baseline() has returned and no pass has run yet
Estimated == pc = "levels" /\ history = <<>> /\ df # <<>>

\* the rows of bb no row is less luminous than
LeastLuminous(bb, I) ==
    {i \in I : \A j \in I : IF flux THEN ~MagLess(bb[j], bb[i])
                                    ELSE ~MagLess(bb[i], bb[j])}

\* two (value, uncertainty) pairs are the same numbers
SameValue(a, b) ==
    /\ a.num * b.den = b.num * a.den
    /\ a.var * b.vden * b.vden = b.var * a.vden * a.vden

\* C18: the provisional baseline is taken from the least luminous block; when
\* that block has one measurement, value and uncertainty are computed jointly
\* from it and one other block, the second-least-luminous one, for every
\* sequence of at least two blocks, blocks of equal mean included.
C18_SecondBlock ==
    Estimated =>
        \E first \in LeastLuminous(baye_block, 1..Len(baye_block)) :
            IF baye_block[first].measurements_nu = 1
            THEN \E k \in LeastLuminous(baye_block,
                                         (1..Len(baye_block)) \ {first}) :
                    SameValue(baseline,
                              OfTwoBlocks(baye_block[first], baye_block[k]))
            ELSE SameValue(baseline, OfBlock(baye_block[first]))

\* the rows of d that are the first with their time
FirstOfEachJd(d) ==
    LET F[i \in 0..Len(d)] ==
            IF i = 0 THEN <<>>
            ELSE IF \E j \in 1..(i - 1) : d[j].jd = d[i].jd THEN F[i - 1]
            ELSE Append(F[i - 1], d[i])
    IN F[Len(d)]

\* C19: measurements with duplicate timestamps collapse to the first
\* occurrence before segmentation: the blocks are those of the first
\* measurement of each distinct time, and a later duplicate contributes to no
\* block's member count or mean.
C19_FirstOccurrence ==
    BlocksBuilt =>
        LET first == BuildBlocks(FirstOfEachJd(df), edges, data_type)
        IN \A i \in 1..Len(baye_block) :
              /\ baye_block[i].measurements_nu = first[i].measurements_nu
              /\ baye_block[i].magSum = first[i].magSum

\* C20: for every band with an excess region, in flux and in magnitude mode,
\* significance_of_fluctuation is emitted as exactly two lists (before and
\* after the peak) for the region of the global peak, also when that region
\* has more than one block.
C20_TwoLists ==
    (OutputBuilt /\ WithLevel(baye_block, "excess") # {}) =>
        Len(output.significance_of_fluctuation) = 2

\* the magnitudes of the rows of df that are no outliers and lie outside the
\* measurement span of every excess region of the band
OutsideEveryExcess ==
    LET regions == ConsecutiveGroups(WithLevel(baye_block, "excess"))
        inside(r, idx) ==
            /\ baye_block[idx[1]].jd_measurement_start <= r.jd
            /\ r.jd <= baye_block[idx[Len(idx)]].jd_measurement_end
        rows == SelectSeq(df, LAMBDA r :
                    /\ ~r.Outlier
                    /\ \A k \in 1..Len(regions) : ~inside(r, regions[k]))
    IN Map(rows, LAMBDA r : r.mag)

\* two floats are the same number
SameQuotient(a, b) ==
    /\ a.kind = b.kind
    /\ a.kind = "finite" => a.sq[1] * b.sq[2] = b.sq[1] * a.sq[2]

\* C21: the RMS behind significance and strength_sjoert is taken over exactly
\* the non-outlier measurements outside every excess region of the band, also
\* when the band has several excess regions.
C21_OutsideEveryExcess ==
    (OutputBuilt /\ WithLevel(baye_block, "excess") # {}) =>
        LET rms == RmsSq(OutsideEveryExcess, baseline)
            top == MaxMag(df, flux) * baseline.den - baseline.num
        IN /\ SameQuotient(output.significance[1],
                    Ratio(rms, <<baseline.var, baseline.vden * baseline.vden>>))
           /\ SameQuotient(output.strength_sjoert[1],
                    Ratio(<<top * top, baseline.den * baseline.den>>, rms))

\* C22: when the first rule does not apply, the result is labelled 'Only
\* baseline' and no later rule is evaluated whenever start_excess is None or
\* size_excess <= 1, in particular for a defined start_excess with a
\* size_excess of at most 1.
C22_NoWindowOrShort ==
    (/\ Evaluated
     /\ ~AllOnlyBaseline
     /\ t2_output.start_excess.isNone \/ t2_output.size_excess <= 1) =>
        /\ eval_pc \in {"guard", "status", "returned"}
        /\ eval_pc # "guard" => eval_output.description = <<"Only baseline">>

\* a <= b of two floats
Leq(a, b) == a # NaN /\ b # NaN /\ a <= b

\* the rules on the whole result before 'Low significance' do not match
ReachesLowSignificance ==
    /\ Evaluated
    /\ ~AllOnlyBaseline
    /\ GlobalWindow
    /\ Rejection \in {"", "Low significance"}
    /\ eval_pc # "guard"

\* C23: when the earlier rules do not match, the result is labelled 'Low
\* significance' iff the strength of some band is less than or equal to its
\* significance; a strength equal to the significance triggers the label.
C23_LowSignificance ==
    ReachesLowSignificance =>
        (eval_output.description = <<"Low significance">>
         <=> \E k \in 1..Len(filter) :
                 Leq(output_per_filter[k].strength_sjoert[1],
                     output_per_filter[k].significance[1]))

\* the step of the loop over the bands for a band with excess
BandStep == eval_pc = "bands" /\ read'.key = key

PostPeakLabels ==
    {"Outlier", "Sharp drop after peak",
     "Excess region with monotonic declination"}

\* C25: the rules on what follows the peak are first-match-wins: a band that
\* reaches them gets exactly one of 'Outlier', 'Sharp drop after peak' and
\* 'Excess region with monotonic declination'; a band labelled 'Outlier' gets
\* no further such label.
C25_OnePostPeakLabel ==
    [][BandStep =>
        LET old == Len(eval_output.description)
            new == Len(eval_output'.description)
            post == {k \in (old + 1)..new :
                        eval_output'.description[k] \in PostPeakLabels}
        IN eval_output'.description[new] \in PostPeakLabels =>
              Cardinality(post) = 1]_vars

\* C26: computing the provisional baseline leaves the block sequence it is
\* given unchanged: the level of every block is still unset when baseline()
\* has returned, so that every block is classified by the threshold rule.
C26_BaselineLeavesLevels ==
    Estimated => \A i \in 1..Len(baye_block) : baye_block[i].level = "None"

\* C27: in the emitted result of a band the final levels agree with the
\* emitted sigma_from_baseline: a block of level 'excess' has
\* sigma_from_baseline > rej_sigma, a block of level 'baseline' has
\* sigma_from_baseline <= rej_sigma.
C27_LevelsAgreeWithSigma ==
    OutputBuilt =>
        \A i \in 1..Len(baye_block) :
            LET z == baye_block[i].sigma_from_baseline
            IN /\ baye_block[i].level = "excess" =>
                     z[1] > rej_sigma * rej_sigma * z[2]
               /\ baye_block[i].level = "baseline" =>
                     z[1] <= rej_sigma * rej_sigma * z[2]

\* the band fid supplied at least 2 measurements and process raised before
\* the primitive returned its edges
SegmentationRaised ==
    /\ pc = "error"
    /\ Len(phot_len) = fid
    /\ phot_len[fid] >= 2
    /\ edges = <<>>

\* C28: for every data type process accepts and every band that supplies at
\* least 2 measurements, segmentation completes without raising and yields
\* at least one block, with at least 2 measurements present when the
\* primitive is called, also after the rolling-window rejection.
C28_SegmentationCompletes ==
    /\ ~SegmentationRaised
    /\ BlocksBuilt => Len(baye_block) >= 1 /\ Len(df) >= 2

\* the loop over the bands has ended and the test that decides whether rise
\* and fade are computed has passed
ComputesEFolding == eval_pc = "status" /\ Investigate

\* the five accumulated lists have one entry per band
OneEntryPerBand ==
    /\ Len(excess_region.baseline_jd) = Len(filter)
    /\ Len(excess_region.start_baseline_jd) = Len(filter)
    /\ Len(excess_region.excess_jd) = Len(filter)
    /\ Len(excess_region.max_mag) = Len(filter)
    /\ Len(excess_region.max_mag_jd) = Len(filter)

\* C29: whenever rise and fade are computed, the lists baseline_jd,
\* start_baseline_jd, excess_jd, max_mag and max_mag_jd have one entry per
\* band of the filter list, and the i-th entries are those of the i-th band:
\* the end and the peak of its dominant excess window.
C29_ListsAligned ==
    ComputesEFolding =>
        /\ OneEntryPerBand
        /\ \A i \in 1..Len(filter) :
              LET o == output_per_filter[i]
              IN /\ HasExcess(o)
                 /\ excess_region.excess_jd[i] = Dominant(o)[2]
                 /\ excess_region.max_mag[i] =
                       o.max_mag_excess_region[
                           ArgMaxMag(o.max_mag_excess_region, flux)]

\* n is a power of two
PowerOfTwo(n) == n = 2 ^ Log2(n)

\* the superpixels returned, each with its resolution
Superpixels ==
    UNION {{<<s, superpix>> : superpix \in decomposed[s]} :
              s \in DOMAIN decomposed}

\* the base-resolution pixels of the nested superpixel sp[2] at nside sp[1]
Expand(sp) ==
    LET n == (nside \div sp[1]) * (nside \div sp[1])
    IN (sp[2] * n)..(sp[2] * n + n - 1)

\* deres has returned for its domain: nside and min_nside powers of two,
\* min_nside <= nside
DeresReturned ==
    /\ deres_pc = "returned"
    /\ PowerOfTwo(nside)
    /\ PowerOfTwo(min_nside)
    /\ min_nside <= nside

====
